---- MODULE Spec2Model ----
(***************************************************************************)
(* Order-book reconstruction and arbitrage scanner of the polytrading      *)
(* repository.                                                             *)
(*                                                                         *)
(* Three programs are modelled, each with its own specification:           *)
(*   SpecBook  the handler-based market client (wsocket/wsocket.py) whose  *)
(*             store holds one BookMessage (wsocket/wsocket_handlers.py)   *)
(*             per instrument: full level lists per side;                  *)
(*   SpecScan  the periodic-scanner market client (wseocket.py): receive   *)
(*             loop, investment_strategy_monitor and save_token_data       *)
(*             running under asyncio.gather on one best-level store;       *)
(*   SpecStore the receive loop of that client alone, with the event       *)
(*             handled last and the store it met kept beside the store;    *)
(*   SpecRun   run() of that client from connect() on, with the frames     *)
(*             recv() returns kept element by element and the events       *)
(*             applied kept in order;                                      *)
(*   SpecLive  the three tasks of run() under the fair scheduling of the   *)
(*             asyncio event loop, for the liveness properties;            *)
(*   SpecEvent the event-driven market client (wsocket.py), which runs     *)
(*             execute_investment_strategy inside handle_message.          *)
(*                                                                         *)
(* Numbers.  Prices, tick sizes and price totals are integers in units of  *)
(* 0.0001 (so the threshold 1 is 10000 and the tick "0.001" is 10); sizes  *)
(* are integers.  A raw JSON scalar is an integer: n >= 0 is a value that  *)
(* float() accepts, NoValue is the empty string / None, BadStr is a string *)
(* that float() rejects.                                                   *)
(***************************************************************************)
EXTENDS Integers, Sequences, FiniteSets, TLC

\* ------------------------------------------------------------------------
\* Bounds of the model and program constants
\* ------------------------------------------------------------------------

\* instrument ids seen on the wire by the handler-based client
BookAssets == {"A"}

\* "" in the best-level store, None in BookMessage
NoValue == -1
\* a string float() raises on
BadStr == -2

\* longest level array a book event of the handler-based client carries
MaxBookLevels == 2
\* longest "changes" array of a price_change event
MaxChanges == 2

\* prices and sizes the handler-based client's events are drawn from
BookPrices == {100, 200}
BookSizes == {0, 5}

\* new_tick_size values and last-trade prices its events are drawn from
BookTicks == {10}
BookTrades == {100}

\* BookMessage.tick_size default, 0.01
BookDefaultTick == 100
\* matching tolerance of update_price_change, 0.0001
Tolerance == 1

\* instrument ids seen on the wire by the periodic-scanner client
Assets == {"A", "B"}
\* an event without "asset_id"
NoAsset == "none"

\* ask and bid levels the scanner client's book events are drawn from
AskPrices == {4000, 5000}
AskSizes == {0, 50, 100}
BidPrices == {3000}
BidSizes == {50}
\* (old_tick_size, new_tick_size) pairs of its tick_size_change events
TickChanges == {[old |-> 10, new |-> 4500], [old |-> 4500, new |-> 10]}

\* longest array frame
MaxFrame == 2
\* levels per side of a book event in a scanner session: the scanner reads
\* only the best level the store keeps
MaxScanLevels == 1
\* levels per side of a book event when the store's handlers are explored
MaxLevels == 2
\* deltas of a price_change event when the store's handlers are explored,
\* and the deltas they are drawn from: below every ask, above every bid
MaxStoreChanges == 1
StoreChangeItems == [price : {3500}, size : {0, 50}, side : {"SELL", "BUY"}]
\* the prices that last_trade_price events carry
TradePrices == {4200}
\* the sessions explored: how many events are received, how many scanner
\* cycles and how many snapshot writes are run
Budgets ==
    {[events |-> 3, cycles |-> 1, saves |-> 0],
     [events |-> 1, cycles |-> 5, saves |-> 0],
     [events |-> 2, cycles |-> 1, saves |-> 2],
     [events |-> 2, cycles |-> 2, saves |-> 0]}

\* "old_tick_size"/"new_tick_size" of a new entry, and the scanner's
\* fallback tick, 0.001
DefaultTick == 10
\* the decision threshold: total_price < 1
Threshold == 10000
\* a wrong variant: the throttle lets every cycle through
AnalysisEvery_Each == 2 - 1
\* the analysis log is written when iteration % 5 == 0
AnalysisEvery == 5

\* the event-driven client (src/wsocket.py): the tick of a new entry, 0.01,
\* and its decision threshold, total_price < 100
EvDefaultTick == 100
EvThreshold == 1000000
\* ask levels, bid levels and price_change deltas its events are drawn from
EvAskItems == {[price |-> 100, size |-> 50], [price |-> 4000, size |-> 100]}
EvBidItems == {[price |-> 3000, size |-> 50]}
EvChangeItems == [price : {100, 4000}, size : {NoValue, 50}, side : {"SELL", "buy"}]
EvTickChanges == {[old |-> 100, new |-> 10]}
\* levels of a book event and deltas of a price_change event
MaxEvLevels == 1
\* the session explored
EventBudget == [events |-> 2, cycles |-> 0, saves |-> 0]

IsNumeric(v) == v >= 0

Abs(x) == IF x < 0 THEN -x ELSE x

SetMin(S) == CHOOSE x \in S : \A y \in S : x <= y

SetMax(S) == CHOOSE x \in S : \A y \in S : x >= y

SeqsUpTo(S, n) == UNION {[1..k -> S] : k \in 0..n}

VARIABLES
    \* ---- handler-based client (wsocket/wsocket.py) ----
    books,      \* self.token_data: asset id -> BookMessage
    levelset,   \* reference book of section 4.3, kept beside the store: per
                \* asset and side the size at each price (0: no level), and
                \* whether its last book event carried a proper level set
    \* ---- periodic-scanner client (wseocket.py) ----
    token_data,     \* self.token_data: asset id -> entry
    token_keys,     \* its keys in insertion order (dict iteration order)
    listening,      \* listen() has not left its loop
    frame_left,     \* events of the frame being handled that are still to come
    budget,         \* events, scanner cycles and snapshot writes still to explore
    seen,           \* asset ids that have received an event
    latest_tick,    \* history: per instrument, the new_tick_size of its latest tick_size_change
    last_event,     \* history: the event handled last and the store it was applied to
    trade_log,      \* last_trade_price_log.json
    iteration,      \* investment_strategy_monitor: iteration
    scan_info,      \* total_price and optimal_size of the latest cycle, as it logs them
    scan_pc,        \* "sleep": awaiting asyncio.sleep; "send": awaiting gather
    wrapped_order,  \* the record built by the cycle in progress, or NoOrder
    send_tasks,     \* its send_order calls: arguments and state
    next_id,        \* uuid4() calls so far; the next id is next_id + 1
    order_log,      \* order_log.json
    analysis_log,   \* analysis_log.json
    snapshot,       \* market_data.json
    save_log,       \* history: what save_token_data logged, pass by pass
    run_pc,         \* run(): "connect", "subscribe", "gather" (its tasks run), "raised", "returned"
    handshake,      \* history: "pending", "ok" or "failed"
    sub_sent,       \* the subscription frame has been sent
    frame,          \* the elements of the frame being handled that are still to come
    received,       \* history: what recv() returned or raised, in order
    applied         \* history: the event objects handle_message completed on, in order

bookvars == <<books, levelset>>

storevars == <<token_data, token_keys, seen, latest_tick>>

recvvars == <<listening, frame_left>>

scanvars == <<iteration, scan_pc, scan_info, wrapped_order, send_tasks, next_id, order_log, analysis_log>>

savevars == <<snapshot, save_log>>

runvars == <<run_pc, handshake, sub_sent, frame, received, applied>>

vars == <<bookvars, storevars, recvvars, scanvars, savevars, budget, last_event, trade_log, runvars>>

\* ------------------------------------------------------------------------
\* BookMessage (wsocket/wsocket_handlers.py)
\* ------------------------------------------------------------------------

\* OrderSummary.__init__: a field float() rejects becomes 0.0
OrderSummary(price, size) ==
    [price |-> IF IsNumeric(price) THEN price ELSE 0,
     size  |-> IF IsNumeric(size) THEN size ELSE 0]

\* BookMessage._parse_order_summaries on a list of {price, size} items:
\* one OrderSummary per item, in order, nothing merged
parse_order_summaries(data) ==
    [i \in 1..Len(data) |-> OrderSummary(data[i].price, data[i].size)]

\* BookMessage.__init__
BookMessage(buys, sells) ==
    [tick_size        |-> BookDefaultTick,
     buys             |-> parse_order_summaries(buys),
     sells            |-> parse_order_summaries(sells),
     last_trade_price |-> NoValue]

\* a wrong variant: the delta's level takes the place of the whole side
UpsertSide_Replace(levels, price, size) == <<OrderSummary(price, size)>>

\* the if/for/else of update_price_change on one side: overwrite the size of
\* the first level within Tolerance of the price, else append a new level
UpsertSide(levels, price, size) ==
    LET hit == {i \in 1..Len(levels) : Abs(levels[i].price - price) < Tolerance}
    IN  IF hit = {}
        THEN Append(levels, OrderSummary(price, size))
        ELSE [levels EXCEPT ![SetMin(hit)].size = size]

\* one iteration of the loop of update_price_change
ApplyChange(book, change) ==
    IF ~IsNumeric(change.price) \/ ~IsNumeric(change.size)
    THEN book
    ELSE IF change.side = "sell"
         THEN [book EXCEPT !.sells = UpsertSide(book.sells, change.price, change.size)]
         ELSE IF change.side = "buy"
              THEN [book EXCEPT !.buys = UpsertSide(book.buys, change.price, change.size)]
              ELSE book

RECURSIVE update_price_change(_, _)
update_price_change(book, changes) ==
    IF changes = <<>>
    THEN book
    ELSE update_price_change(ApplyChange(book, Head(changes)), Tail(changes))

\* BookMessage.update_tick_size_change
update_tick_size_change(book, new_tick) ==
    IF IsNumeric(new_tick) THEN [book EXCEPT !.tick_size = new_tick] ELSE book

\* BookMessage.update_last_trade_price
update_last_trade_price(book, price) ==
    IF IsNumeric(price) THEN [book EXCEPT !.last_trade_price = price] ELSE book

\* BookMessage.extract_best_buy: max(self.buys, key=price), the first of equals
extract_best_buy(book) ==
    IF book.buys = <<>>
    THEN [price |-> NoValue, size |-> 0]
    ELSE LET top == SetMax({book.buys[i].price : i \in 1..Len(book.buys)})
             at  == SetMin({i \in 1..Len(book.buys) : book.buys[i].price = top})
         IN  [price |-> book.buys[at].price, size |-> book.buys[at].size]

\* BookMessage.extract_best_sell: min(self.sells, key=price), the first of equals
extract_best_sell(book) ==
    IF book.sells = <<>>
    THEN [price |-> NoValue, size |-> 0]
    ELSE LET low == SetMin({book.sells[i].price : i \in 1..Len(book.sells)})
             at  == SetMin({i \in 1..Len(book.sells) : book.sells[i].price = low})
         IN  [price |-> book.sells[at].price, size |-> book.sells[at].size]

\* ------------------------------------------------------------------------
\* Reference book: the level sets of section 4.3 for the same events
\* ------------------------------------------------------------------------

BookSides == {"buy", "sell"}

NoLevels == [p \in BookPrices |-> 0]

\* a side built from a level array: de-duplicated by price, the last wins;
\* an item whose price or size is not a number is not a level
RECURSIVE RefSide(_, _)
RefSide(side, data) ==
    IF data = <<>>
    THEN side
    ELSE LET d == Head(data)
         IN  RefSide(IF IsNumeric(d.price) /\ IsNumeric(d.size)
                     THEN [side EXCEPT ![d.price] = d.size]
                     ELSE side,
                     Tail(data))

\* a level array that is a level set already: numeric, distinct prices,
\* sizes above 0
ProperLevels(data) ==
    /\ \A i \in 1..Len(data) : IsNumeric(data[i].price) /\ data[i].size > 0
    /\ \A i, j \in 1..Len(data) : data[i].price = data[j].price => i = j

RefBook(buys, sells) ==
    [buy    |-> RefSide(NoLevels, buys),
     sell   |-> RefSide(NoLevels, sells),
     proper |-> ProperLevels(buys) /\ ProperLevels(sells),
     deltas |-> FALSE]

\* the deltas of a price_change event: size 0 removes the level at the
\* price, any other size upserts it
RECURSIVE RefDeltas(_, _)
RefDeltas(ref, changes) ==
    IF changes = <<>>
    THEN ref
    ELSE LET c == Head(changes)
         IN  RefDeltas(IF IsNumeric(c.price) /\ IsNumeric(c.size) /\ c.side \in BookSides
                       THEN [ref EXCEPT ![c.side][c.price] = c.size, !.deltas = TRUE]
                       ELSE ref,
                       Tail(changes))

\* ------------------------------------------------------------------------
\* Handler-based client: MarketWSSClient.handle_message (wsocket/wsocket.py)
\* ------------------------------------------------------------------------

BookLevelItems == [price : BookPrices, size : BookSizes]

BookChangeItems == [price : BookPrices, size : BookSizes, side : BookSides]

\* with an ask level whose price float() rejects
RawLevelItems == BookLevelItems \cup {[price |-> BadStr, size |-> 5]}

Put(f, k, v) == [x \in DOMAIN f \cup {k} |-> IF x = k THEN v ELSE f[x]]

\* event_type == "book": the store entry becomes a new BookMessage
HBook(a, buys, sells) ==
    /\ books' = Put(books, a, BookMessage(buys, sells))
    /\ levelset' = Put(levelset, a, RefBook(buys, sells))
    /\ UNCHANGED <<storevars, recvvars, scanvars, savevars, budget, last_event, trade_log, runvars>>

\* a wrong variant: the fallback applies the deltas to the book it creates
HPriceChange_AppliesToNew(a, changes) ==
    /\ IF a \in DOMAIN books
       THEN /\ books' = [books EXCEPT ![a] = update_price_change(@, changes)]
            /\ levelset' = [levelset EXCEPT ![a] = RefDeltas(@, changes)]
       ELSE /\ books' = Put(books, a, update_price_change(BookMessage(<<>>, <<>>), changes))
            /\ levelset' = Put(levelset, a, RefBook(<<>>, <<>>))
    /\ UNCHANGED <<storevars, recvvars, scanvars, savevars, budget, last_event, trade_log, runvars>>

\* event_type == "price_change": update the stored book, or (fallback) store
\* a new BookMessage built from the price_change message, which has no
\* "buys"/"sells"
HPriceChange(a, changes) ==
    /\ IF a \in DOMAIN books
       THEN /\ books' = [books EXCEPT ![a] = update_price_change(@, changes)]
            /\ levelset' = [levelset EXCEPT ![a] = RefDeltas(@, changes)]
       ELSE /\ books' = Put(books, a, BookMessage(<<>>, <<>>))
            /\ levelset' = Put(levelset, a, RefBook(<<>>, <<>>))
    /\ UNCHANGED <<storevars, recvvars, scanvars, savevars, budget, last_event, trade_log, runvars>>

\* event_type == "tick_size_change"
HTickSizeChange(a, new_tick) ==
    /\ books' = IF a \in DOMAIN books
                THEN [books EXCEPT ![a] = update_tick_size_change(@, new_tick)]
                ELSE Put(books, a, update_tick_size_change(BookMessage(<<>>, <<>>), new_tick))
    /\ levelset' = IF a \in DOMAIN books
                   THEN levelset
                   ELSE Put(levelset, a, RefBook(<<>>, <<>>))
    /\ UNCHANGED <<storevars, recvvars, scanvars, savevars, budget, last_event, trade_log, runvars>>

\* event_type == "last_trade_price"
HLastTradePrice(a, price) ==
    /\ books' = IF a \in DOMAIN books
                THEN [books EXCEPT ![a] = update_last_trade_price(@, price)]
                ELSE Put(books, a, update_last_trade_price(BookMessage(<<>>, <<>>), price))
    /\ levelset' = IF a \in DOMAIN books
                   THEN levelset
                   ELSE Put(levelset, a, RefBook(<<>>, <<>>))
    /\ UNCHANGED <<storevars, recvvars, scanvars, savevars, budget, last_event, trade_log, runvars>>

InitBook ==
    /\ books = <<>>
    /\ levelset = <<>>

\* ------------------------------------------------------------------------
\* Periodic-scanner client (wseocket.py): the best-level store
\* ------------------------------------------------------------------------

NoLevel == [price |-> NoValue, size |-> NoValue]

\* the for loop of extract_best_level: a level whose price or size float()
\* rejects is skipped; the first level left is the best so far; a later one
\* replaces it on a better price, or on the same price and a larger size
RECURSIVE BestLevelLoop(_, _, _)
BestLevelLoop(levels, best_level, is_ask) ==
    IF levels = <<>>
    THEN best_level
    ELSE LET level == Head(levels)
             next  == IF ~IsNumeric(level.price) \/ ~IsNumeric(level.size)
                      THEN best_level
                      ELSE IF best_level = NoLevel
                           THEN level
                           ELSE LET best_price == IF IsNumeric(best_level.price) /\ IsNumeric(best_level.size)
                                                  THEN best_level.price ELSE 0
                                    best_size  == IF IsNumeric(best_level.price) /\ IsNumeric(best_level.size)
                                                  THEN best_level.size ELSE 0
                                IN  IF is_ask
                                    THEN IF level.price < best_price
                                            \/ (level.price = best_price /\ level.size > best_size)
                                         THEN level ELSE best_level
                                    ELSE IF level.price > best_price
                                            \/ (level.price = best_price /\ level.size > best_size)
                                         THEN level ELSE best_level
         IN  BestLevelLoop(Tail(levels), next, is_ask)

\* MarketWSSClient.extract_best_level
extract_best_level(levels, is_ask) ==
    IF levels = <<>> THEN NoLevel ELSE BestLevelLoop(levels, NoLevel, is_ask)

\* the entry handle_message creates for an asset id it has not seen
NewEntry ==
    [best_buys       |-> NoValue,
     best_buys_size  |-> NoValue,
     best_sells      |-> NoValue,
     best_sells_size |-> NoValue,
     old_tick_size   |-> DefaultTick,
     new_tick_size   |-> DefaultTick]

\* a wrong variant: a book event merges into the entry, a held ask that is
\* lower than the event's best ask stays
ApplyKind_KeepBetter(entry, ev) ==
    IF ev.event_type = "book"
    THEN LET bid == extract_best_level(ev.bids, FALSE)
             ask == extract_best_level(ev.asks, TRUE)
             keep == IsNumeric(entry.best_sells)
                     /\ (~IsNumeric(ask.price) \/ entry.best_sells < ask.price)
         IN  [entry EXCEPT !.best_buys = bid.price, !.best_buys_size = bid.size,
                           !.best_sells = IF keep THEN @ ELSE ask.price,
                           !.best_sells_size = IF keep THEN @ ELSE ask.size]
    ELSE IF ev.event_type = "tick_size_change"
         THEN [entry EXCEPT !.old_tick_size = ev.old_tick_size,
                            !.new_tick_size = ev.new_tick_size]
         ELSE entry

\* a wrong variant: a tick_size_change event starts the entry afresh
ApplyKind_TickResets(entry, ev) ==
    IF ev.event_type = "book"
    THEN LET bid == extract_best_level(ev.bids, FALSE)
             ask == extract_best_level(ev.asks, TRUE)
         IN  [entry EXCEPT !.best_buys = bid.price, !.best_buys_size = bid.size,
                           !.best_sells = ask.price, !.best_sells_size = ask.size]
    ELSE IF ev.event_type = "tick_size_change"
         THEN [NewEntry EXCEPT !.old_tick_size = ev.old_tick_size,
                               !.new_tick_size = ev.new_tick_size]
         ELSE entry

\* the branch of handle_message for the event's kind, on the asset's entry
ApplyKind(entry, ev) ==
    IF ev.event_type = "book"
    THEN LET bid == extract_best_level(ev.bids, FALSE)
             ask == extract_best_level(ev.asks, TRUE)
         IN  [entry EXCEPT !.best_buys = bid.price, !.best_buys_size = bid.size,
                           !.best_sells = ask.price, !.best_sells_size = ask.size]
    ELSE IF ev.event_type = "tick_size_change"
         THEN [entry EXCEPT !.old_tick_size = ev.old_tick_size,
                            !.new_tick_size = ev.new_tick_size]
         ELSE entry

\* a wrong variant: an event without asset id gets an entry, under the key None
handle_message_KeyNone(store, ev) ==
    LET entry == IF ev.asset_id \in DOMAIN store THEN store[ev.asset_id] ELSE NewEntry
    IN  Put(store, ev.asset_id, ApplyKind(entry, ev))

\* a wrong variant: the store keeps only the instrument of the latest event
handle_message_Latest(store, ev) ==
    IF ev.asset_id = NoAsset
    THEN store
    ELSE LET entry == IF ev.asset_id \in DOMAIN store THEN store[ev.asset_id] ELSE NewEntry
         IN  Put(<<>>, ev.asset_id, ApplyKind(entry, ev))

\* MarketWSSClient.handle_message on one event object
handle_message(store, ev) ==
    IF ev.asset_id = NoAsset
    THEN store
    ELSE LET entry == IF ev.asset_id \in DOMAIN store THEN store[ev.asset_id] ELSE NewEntry
         IN  Put(store, ev.asset_id, ApplyKind(entry, ev))

\* dict insertion order: a new key goes last
handle_message_keys(keys, ev) ==
    IF ev.asset_id = NoAsset \/ \E i \in 1..Len(keys) : keys[i] = ev.asset_id
    THEN keys
    ELSE Append(keys, ev.asset_id)

AskItems == [price : AskPrices, size : AskSizes]

BidItems == [price : BidPrices, size : BidSizes]

\* with a level whose price float() rejects, for the store's handlers
StoreAskItems == [price : AskPrices, size : {0, 50}] \cup {[price |-> BadStr, size |-> 50]}

Event(kind, a, bids, asks, tick) ==
    [event_type |-> kind, asset_id |-> a, bids |-> bids, asks |-> asks, changes |-> <<>>,
     price |-> NoValue, old_tick_size |-> tick.old, new_tick_size |-> tick.new]

NoTick == [old |-> DefaultTick, new |-> DefaultTick]

NoEvent == [ev |-> Event("none", NoAsset, <<>>, <<>>, NoTick), before |-> <<>>]

\* listen(): recv() returns a frame of n event objects
RecvFrame(n) ==
    /\ listening
    /\ frame_left = 0
    /\ n <= budget.events
    /\ frame_left' = n
    /\ budget' = [budget EXCEPT !.events = @ - n]
    /\ UNCHANGED <<last_event, trade_log, bookvars, storevars, listening, scanvars, savevars>>

\* a wrong variant: the loop goes on to its next recv()
RecvError_Retry ==
    /\ listening
    /\ frame_left = 0
    /\ listening' = TRUE
    /\ UNCHANGED <<last_event, trade_log, bookvars, storevars, frame_left, scanvars, savevars, budget>>

\* listen(): recv() or json.loads raises; the loop is left
RecvError ==
    /\ listening
    /\ frame_left = 0
    /\ listening' = FALSE
    /\ UNCHANGED <<last_event, trade_log, bookvars, storevars, frame_left, scanvars, savevars, budget>>

\* handle_message on the next event object of the frame
HandleEvent(ev) ==
    /\ frame_left > 0
    /\ frame_left' = frame_left - 1
    /\ token_data' = handle_message(token_data, ev)
    /\ token_keys' = handle_message_keys(token_keys, ev)
    /\ seen' = IF ev.asset_id = NoAsset THEN seen ELSE seen \cup {ev.asset_id}
    /\ latest_tick' = IF ev.asset_id # NoAsset /\ ev.event_type = "tick_size_change"
                      THEN Put(latest_tick, ev.asset_id, ev.new_tick_size)
                      ELSE latest_tick
    /\ UNCHANGED <<bookvars, listening, scanvars, savevars, budget>>

\* ------------------------------------------------------------------------
\* Periodic-scanner client: files
\* ------------------------------------------------------------------------

\* a JSON list file: ok = it exists and json.load gives a list (absent reads
\* the same as an empty list); ~ok = json.load raises or gives no list
EmptyFile == [ok |-> TRUE, recs |-> <<>>]

BrokenFile == [ok |-> FALSE, recs |-> <<>>]

\* how a write can end: done, open() raises, json.dump raises after open()
\* truncated the file
WriteOutcomes == {"ok", "open_fails", "dump_fails"}

\* how the read can end: json.load gives the file's content, or open() or
\* json.load raises
ReadOutcomes == {"ok", "read_fails"}

\* the read half of the read-modify-write: the list read, or [] on any error
ReadList(file, read) == IF file.ok /\ read = "ok" THEN file.recs ELSE <<>>

\* the write half: with open(..., "w"): json.dump(...)
WriteList(file, recs, outcome) ==
    IF outcome = "ok" THEN [ok |-> TRUE, recs |-> recs]
    ELSE IF outcome = "open_fails" THEN file
    ELSE BrokenFile

\* read current list, append, write back
AppendToFile(file, rec, read, outcome) ==
    WriteList(file, Append(ReadList(file, read), rec), outcome)

\* ------------------------------------------------------------------------
\* Periodic-scanner client: investment_strategy_monitor
\* ------------------------------------------------------------------------

NoOrder == [order_id |-> 0, total_price |-> 0, orders |-> <<>>]

NoScan == [total_price |-> NoValue, optimal_size |-> NoValue]

\* the body of the for loop over token_data.items(): TRUE when the token is
\* appended to orders, FALSE on either continue
Included(data) ==
    /\ data.best_sells # NoValue /\ IsNumeric(data.best_sells)
    /\ data.best_sells_size # NoValue /\ IsNumeric(data.best_sells_size)
    /\ LET tick_size == IF IsNumeric(data.new_tick_size) THEN data.new_tick_size ELSE DefaultTick
       IN  ~(data.best_sells <= tick_size)

\* orders after the for loop, in the store's iteration order
RECURSIVE ScanOrders(_, _)
ScanOrders(store, keys) ==
    IF keys = <<>>
    THEN <<>>
    ELSE LET token_id == Head(keys)
             data == store[token_id]
         IN  (IF Included(data)
              THEN <<[token_id |-> token_id, price |-> data.best_sells,
                      size |-> data.best_sells_size, optimal_size |-> NoValue]>>
              ELSE <<>>)
             \o ScanOrders(store, Tail(keys))

RECURSIVE SumPrices(_)
SumPrices(orders) == IF orders = <<>> THEN 0 ELSE Head(orders).price + SumPrices(Tail(orders))

\* a wrong variant: the largest size
OptimalSize_Max(orders) ==
    IF orders = <<>> THEN 0 ELSE SetMax({orders[i].size : i \in 1..Len(orders)})

\* min(token_sizes) if token_sizes else 0
OptimalSize(orders) ==
    IF orders = <<>> THEN 0 ELSE SetMin({orders[i].size : i \in 1..Len(orders)})

\* a wrong variant: the scanner remembers that it has decided and does not
\* decide again
Triggers_Once(orders) == SumPrices(orders) < Threshold /\ orders # <<>> /\ next_id = 0

\* a wrong variant: no threshold
Triggers_NoThreshold(orders) == orders # <<>>

\* total_price < 1 and orders
Triggers(orders) == SumPrices(orders) < Threshold /\ orders # <<>>

\* a wrong variant: each order is allocated its own size
WithOptimal_OwnSize(orders) ==
    [i \in 1..Len(orders) |-> [orders[i] EXCEPT !.optimal_size = orders[i].size]]

\* for order in orders: order["optimal_size"] = optimal_size
WithOptimal(orders) ==
    [i \in 1..Len(orders) |-> [orders[i] EXCEPT !.optimal_size = OptimalSize(orders)]]

\* the send_order calls built from the orders
SendTasks(orders) ==
    [i \in 1..Len(orders) |->
        [token_id    |-> orders[i].token_id,
         order_size  |-> orders[i].optimal_size,
         order_price |-> orders[i].price,
         weighted    |-> orders[i].size # orders[i].optimal_size,
         status      |-> "pending"]]

AnalysisEntry(n, orders) ==
    [iteration    |-> n,
     log_orders   |-> [i \in 1..Len(orders) |->
                          [token_id |-> orders[i].token_id,
                           best_sell_price |-> orders[i].price,
                           best_sell_size |-> orders[i].size]],
     total_price  |-> SumPrices(orders),
     optimal_size |-> OptimalSize(orders)]

\* a wrong variant: the orders are dispatched only when the log write is done
ScanCycle_LoggedOnly(a_in, a_out, o_in, o_out) ==
    /\ scan_pc = "sleep"
    /\ frame_left = 0
    /\ budget.cycles > 0
    /\ budget' = [budget EXCEPT !.cycles = @ - 1]
    /\ LET scanned == ScanOrders(token_data, token_keys)
           orders  == WithOptimal(scanned)
           record  == [order_id |-> next_id + 1,
                       total_price |-> SumPrices(scanned),
                       orders |-> orders]
       IN  /\ iteration' = iteration + 1
           /\ scan_info' = [total_price |-> SumPrices(scanned), optimal_size |-> OptimalSize(scanned)]
           /\ analysis_log' = IF (iteration + 1) % AnalysisEvery = 0
                               THEN AppendToFile(analysis_log,
                                                 AnalysisEntry(iteration + 1, scanned),
                                                 a_in, a_out)
                               ELSE analysis_log
           /\ IF Triggers(scanned)
              THEN /\ next_id' = next_id + 1
                   /\ wrapped_order' = record
                   /\ order_log' = AppendToFile(order_log, record, o_in, o_out)
                   /\ send_tasks' = IF o_out = "ok" THEN SendTasks(orders) ELSE <<>>
                   /\ scan_pc' = "send"
              ELSE /\ o_in = "ok" /\ o_out = "ok"
                   /\ UNCHANGED <<next_id, wrapped_order, order_log, send_tasks, scan_pc>>
    /\ (iteration + 1) % AnalysisEvery # 0 => a_in = "ok" /\ a_out = "ok"
    /\ UNCHANGED <<last_event, trade_log, runvars, bookvars, storevars, recvvars, savevars>>

\* one pass of the while loop, from the scan to its first await: the gather
\* of the send_order calls when the cycle triggers, else asyncio.sleep
ScanCycle(a_in, a_out, o_in, o_out) ==
    /\ scan_pc = "sleep"
    /\ frame_left = 0
    /\ budget.cycles > 0
    /\ budget' = [budget EXCEPT !.cycles = @ - 1]
    /\ LET scanned == ScanOrders(token_data, token_keys)
           orders  == WithOptimal(scanned)
           record  == [order_id |-> next_id + 1,
                       total_price |-> SumPrices(scanned),
                       orders |-> orders]
       IN  /\ iteration' = iteration + 1
           /\ scan_info' = [total_price |-> SumPrices(scanned), optimal_size |-> OptimalSize(scanned)]
           /\ analysis_log' = IF (iteration + 1) % AnalysisEvery = 0
                               THEN AppendToFile(analysis_log,
                                                 AnalysisEntry(iteration + 1, scanned),
                                                 a_in, a_out)
                               ELSE analysis_log
           /\ IF Triggers(scanned)
              THEN /\ next_id' = next_id + 1
                   /\ wrapped_order' = record
                   /\ order_log' = AppendToFile(order_log, record, o_in, o_out)
                   /\ send_tasks' = SendTasks(orders)
                   /\ scan_pc' = "send"
              ELSE /\ o_in = "ok" /\ o_out = "ok"
                   /\ UNCHANGED <<next_id, wrapped_order, order_log, send_tasks, scan_pc>>
    /\ (iteration + 1) % AnalysisEvery # 0 => a_in = "ok" /\ a_out = "ok"
    /\ UNCHANGED <<last_event, trade_log, runvars, bookvars, storevars, recvvars, savevars>>

\* a wrong variant: the call submits the instrument's best ask of the
\* moment it runs
SendOrderDone_ReadsStore(i) ==
    /\ scan_pc = "send"
    /\ frame_left = 0
    /\ i \in 1..Len(send_tasks)
    /\ send_tasks[i].status = "pending"
    /\ send_tasks' = [send_tasks EXCEPT ![i].status = "success",
                                        ![i].order_price = token_data[send_tasks[i].token_id].best_sells]
    /\ UNCHANGED <<last_event, trade_log, runvars, bookvars, storevars, recvvars, savevars, budget,
                   iteration, scan_pc, scan_info, wrapped_order, next_id, order_log, analysis_log>>

\* OrderSender.send_order: one call returns its response after its sleep
SendOrderDone(i) ==
    /\ scan_pc = "send"
    /\ frame_left = 0
    /\ i \in 1..Len(send_tasks)
    /\ send_tasks[i].status = "pending"
    /\ send_tasks' = [send_tasks EXCEPT ![i].status = "success"]
    /\ UNCHANGED <<last_event, trade_log, runvars, bookvars, storevars, recvvars, savevars, budget,
                   iteration, scan_pc, scan_info, wrapped_order, next_id, order_log, analysis_log>>

\* a wrong variant: the failure of one call cancels the calls still pending
SendOrderFails_CancelsAll(i) ==
    /\ scan_pc = "send"
    /\ frame_left = 0
    /\ i \in 1..Len(send_tasks)
    /\ send_tasks[i].status = "pending"
    /\ send_tasks' = [j \in 1..Len(send_tasks) |->
                          IF j = i THEN [send_tasks[j] EXCEPT !.status = "error"]
                          ELSE IF send_tasks[j].status = "pending"
                               THEN [send_tasks[j] EXCEPT !.status = "cancelled"]
                               ELSE send_tasks[j]]
    /\ UNCHANGED <<last_event, trade_log, runvars, bookvars, storevars, recvvars, savevars, budget,
                   iteration, scan_pc, scan_info, wrapped_order, next_id, order_log, analysis_log>>

\* OrderSender.send_order: one call catches an exception raised inside its
\* try block and returns its error response
SendOrderFails(i) ==
    /\ scan_pc = "send"
    /\ frame_left = 0
    /\ i \in 1..Len(send_tasks)
    /\ send_tasks[i].status = "pending"
    /\ send_tasks' = [send_tasks EXCEPT ![i].status = "error"]
    /\ UNCHANGED <<last_event, trade_log, runvars, bookvars, storevars, recvvars, savevars, budget,
                   iteration, scan_pc, scan_info, wrapped_order, next_id, order_log, analysis_log>>

\* a wrong variant: the cycle takes the asks it ordered out of the store
GatherDone_TakesAsks ==
    /\ scan_pc = "send"
    /\ frame_left = 0
    /\ \A i \in 1..Len(send_tasks) : send_tasks[i].status # "pending"
    /\ scan_pc' = "sleep"
    /\ send_tasks' = <<>>
    /\ wrapped_order' = NoOrder
    /\ token_data' = [a \in DOMAIN token_data |->
                          IF \E i \in 1..Len(send_tasks) : send_tasks[i].token_id = a
                          THEN [token_data[a] EXCEPT !.best_sells = NoValue,
                                                     !.best_sells_size = NoValue]
                          ELSE token_data[a]]
    /\ UNCHANGED <<last_event, trade_log, runvars, bookvars, token_keys, seen, latest_tick,
                   recvvars, savevars, budget,
                   iteration, scan_info, next_id, order_log, analysis_log>>

\* asyncio.gather(*send_tasks) returns; the cycle goes to asyncio.sleep
GatherDone ==
    /\ scan_pc = "send"
    /\ frame_left = 0
    /\ \A i \in 1..Len(send_tasks) : send_tasks[i].status # "pending"
    /\ scan_pc' = "sleep"
    /\ send_tasks' = <<>>
    /\ wrapped_order' = NoOrder
    /\ UNCHANGED <<last_event, trade_log, runvars, bookvars, storevars, recvvars, savevars, budget,
                   iteration, scan_info, next_id, order_log, analysis_log>>

\* ------------------------------------------------------------------------
\* Periodic-scanner client: save_token_data
\* ------------------------------------------------------------------------

NoSnapshot == [ok |-> FALSE, data |-> <<>>]

\* a wrong variant: only the entries that hold an ask are written
SaveTokenData_AskOnly(outcome) ==
    /\ frame_left = 0
    /\ budget.saves > 0
    /\ budget' = [budget EXCEPT !.saves = @ - 1]
    /\ snapshot' = IF outcome = "ok"
                   THEN [ok |-> TRUE,
                         data |-> [a \in {k \in DOMAIN token_data :
                                             token_data[k].best_sells # NoValue}
                                   |-> token_data[a]]]
                   ELSE IF outcome = "open_fails" THEN snapshot
                   ELSE NoSnapshot
    /\ save_log' = Append(save_log, outcome)
    /\ UNCHANGED <<last_event, trade_log, runvars, bookvars, storevars, recvvars, scanvars>>

\* a wrong variant: the write is scheduled while a frame is being handled
SaveTokenData_Preempt(outcome) ==
    /\ budget.saves > 0
    /\ budget' = [budget EXCEPT !.saves = @ - 1]
    /\ snapshot' = IF outcome = "ok" THEN [ok |-> TRUE, data |-> token_data]
                   ELSE IF outcome = "open_fails" THEN snapshot
                   ELSE NoSnapshot
    /\ save_log' = Append(save_log, outcome)
    /\ UNCHANGED <<last_event, trade_log, runvars, bookvars, storevars, recvvars, scanvars>>

\* a wrong variant: a failed write ends the writer's loop
SaveTokenData_StopsOnFailure(outcome) ==
    /\ frame_left = 0
    /\ budget.saves > 0
    /\ \A i \in 1..Len(save_log) : save_log[i] = "ok"
    /\ budget' = [budget EXCEPT !.saves = @ - 1]
    /\ snapshot' = IF outcome = "ok" THEN [ok |-> TRUE, data |-> token_data]
                   ELSE IF outcome = "open_fails" THEN snapshot
                   ELSE NoSnapshot
    /\ save_log' = Append(save_log, outcome)
    /\ UNCHANGED <<last_event, trade_log, runvars, bookvars, storevars, recvvars, scanvars>>

\* a wrong variant: the writer waits until the receive loop has handled an event
SaveTokenData_AwaitsEvent(outcome) ==
    /\ frame_left = 0
    /\ seen # {}
    /\ budget.saves > 0
    /\ budget' = [budget EXCEPT !.saves = @ - 1]
    /\ snapshot' = IF outcome = "ok" THEN [ok |-> TRUE, data |-> token_data]
                   ELSE IF outcome = "open_fails" THEN snapshot
                   ELSE NoSnapshot
    /\ save_log' = Append(save_log, outcome)
    /\ UNCHANGED <<last_event, trade_log, runvars, bookvars, storevars, recvvars, scanvars>>

\* one pass of the while loop: open(filepath, "w"), json.dump(token_data)
SaveTokenData(outcome) ==
    /\ frame_left = 0
    /\ budget.saves > 0
    /\ budget' = [budget EXCEPT !.saves = @ - 1]
    /\ snapshot' = IF outcome = "ok" THEN [ok |-> TRUE, data |-> token_data]
                   ELSE IF outcome = "open_fails" THEN snapshot
                   ELSE NoSnapshot
    /\ save_log' = Append(save_log, outcome)
    /\ UNCHANGED <<last_event, trade_log, runvars, bookvars, storevars, recvvars, scanvars>>

InitScan ==
    /\ token_data = <<>>
    /\ token_keys = <<>>
    /\ seen = {}
    /\ latest_tick = <<>>
    /\ last_event = NoEvent
    /\ trade_log = EmptyFile
    /\ listening = TRUE
    /\ frame_left = 0
    /\ iteration = 0
    /\ scan_info = NoScan
    /\ scan_pc = "sleep"
    /\ wrapped_order = NoOrder
    /\ send_tasks = <<>>
    /\ next_id = 0
    /\ order_log = EmptyFile
    /\ analysis_log = EmptyFile
    /\ snapshot = NoSnapshot
    /\ save_log = <<>>

\* run() has connected and subscribed and awaits its tasks
InitRunning ==
    /\ run_pc = "gather"
    /\ handshake = "ok"
    /\ sub_sent = TRUE
    /\ frame = <<>>
    /\ received = <<>>
    /\ applied = <<>>

\* no session of the scanner client
NoBudget == [events |-> 0, cycles |-> 0, saves |-> 0]

Init == InitBook /\ InitScan /\ InitRunning /\ budget \in Budgets

\* the event objects a frame can carry
BookEvents(n, items) ==
    {Event("book", a, bids, asks, NoTick) :
        a \in Assets, bids \in SeqsUpTo(BidItems, n), asks \in SeqsUpTo(items, n)}

TickEvents == {Event("tick_size_change", a, <<>>, <<>>, t) : a \in Assets, t \in TickChanges}

OtherEvents ==
    {Event(kind, a, <<>>, <<>>, NoTick) :
        kind \in {"price_change", "last_trade_price", "other"}, a \in Assets}

NoAssetEvents == {Event(kind, NoAsset, <<>>, <<>>, NoTick) : kind \in {"book", "price_change"}}

\* last_trade_price events that carry a price
LastTradeEvents ==
    {[Event("last_trade_price", a, <<>>, <<>>, NoTick) EXCEPT !.price = p] :
        a \in Assets, p \in TradePrices}

\* the last_trade_price branch of handle_message: the message is appended
\* to last_trade_price_log.json by a read-modify-write of the file
LogLastTrade(file, ev, read, outcome) ==
    IF ev.event_type = "last_trade_price" /\ ev.asset_id # NoAsset
    THEN AppendToFile(file, [asset_id |-> ev.asset_id, price |-> ev.price], read, outcome)
    ELSE file

\* price_change events that carry deltas
PriceChangeEvents ==
    {[Event("price_change", a, <<>>, <<>>, NoTick) EXCEPT !.changes = changes] :
        a \in Assets, changes \in SeqsUpTo(StoreChangeItems, MaxStoreChanges) \ {<<>>}}

NextScan ==
    \/ \E n \in 1..MaxFrame : RecvFrame(n) /\ UNCHANGED runvars
    \/ RecvError /\ UNCHANGED runvars
    \/ \E ev \in BookEvents(MaxScanLevels, AskItems) : HandleEvent(ev) /\ UNCHANGED <<last_event, trade_log, runvars>>
    \/ \E ev \in TickEvents : HandleEvent(ev) /\ UNCHANGED <<last_event, trade_log, runvars>>
    \/ \E ev \in OtherEvents : HandleEvent(ev) /\ UNCHANGED <<last_event, trade_log, runvars>>
    \/ \E ev \in NoAssetEvents : HandleEvent(ev) /\ UNCHANGED <<last_event, trade_log, runvars>>
    \/ \E a_in, o_in \in ReadOutcomes, a_out, o_out \in WriteOutcomes :
          ScanCycle(a_in, a_out, o_in, o_out)
    \/ \E i \in 1..Cardinality(Assets) : SendOrderDone(i)
    \/ \E i \in 1..Cardinality(Assets) : SendOrderFails(i)
    \/ GatherDone
    \/ \E outcome \in WriteOutcomes : SaveTokenData(outcome)

SpecScan == Init /\ [][NextScan]_vars

\* the receive loop alone, with the event handled last kept beside the store
StoreBudget == [events |-> 2, cycles |-> 0, saves |-> 0]

InitStore == InitBook /\ InitScan /\ InitRunning /\ budget = StoreBudget

Recorded(ev) ==
    /\ HandleEvent(ev)
    /\ last_event' = [ev |-> ev, before |-> token_data]
    /\ trade_log' \in {LogLastTrade(trade_log, ev, read, outcome) :
                          read \in ReadOutcomes, outcome \in WriteOutcomes}
    /\ UNCHANGED runvars

NextStore ==
    \/ \E n \in 1..MaxFrame : RecvFrame(n) /\ UNCHANGED runvars
    \/ RecvError /\ UNCHANGED runvars
    \/ \E ev \in BookEvents(MaxLevels, StoreAskItems) : Recorded(ev)
    \/ \E ev \in TickEvents : Recorded(ev)
    \/ \E ev \in OtherEvents : Recorded(ev)
    \/ \E ev \in NoAssetEvents : Recorded(ev)
    \/ \E ev \in PriceChangeEvents : Recorded(ev)
    \/ \E ev \in LastTradeEvents : Recorded(ev)

SpecStore == InitStore /\ [][NextStore]_vars

\* ------------------------------------------------------------------------
\* Event-driven client (src/wsocket.py): the strategy runs inside
\* handle_message, after every book and price_change event
\* ------------------------------------------------------------------------

EvNewEntry == [NewEntry EXCEPT !.old_tick_size = EvDefaultTick, !.new_tick_size = EvDefaultTick]

\* side = change.get("side", "").upper()
Upper(side) == IF side = "sell" THEN "SELL" ELSE IF side = "buy" THEN "BUY" ELSE side

\* one pass of the for loop over changes: the stored best level of the
\* delta's side is replaced when there is none, when the delta's price is
\* better, or when it is equal and the delta's size is larger
EvApplyChange(entry, change) ==
    IF ~IsNumeric(change.price)
    THEN entry
    ELSE LET new_size == IF IsNumeric(change.size) THEN change.size ELSE 0
         IN  IF Upper(change.side) = "SELL"
             THEN LET ok == entry.best_sells # BadStr /\ IsNumeric(entry.best_sells_size)
                      current_val  == IF ok THEN entry.best_sells ELSE NoValue
                      current_size == IF ok THEN entry.best_sells_size ELSE 0
                  IN  IF current_val = NoValue \/ change.price < current_val
                         \/ (change.price = current_val /\ new_size > current_size)
                      THEN [entry EXCEPT !.best_sells = change.price,
                                         !.best_sells_size = change.size]
                      ELSE entry
             ELSE IF Upper(change.side) = "BUY"
             THEN LET ok == entry.best_buys # BadStr /\ IsNumeric(entry.best_buys_size)
                      current_val  == IF ok THEN entry.best_buys ELSE NoValue
                      current_size == IF ok THEN entry.best_buys_size ELSE 0
                  IN  IF current_val = NoValue \/ change.price > current_val
                         \/ (change.price = current_val /\ new_size > current_size)
                      THEN [entry EXCEPT !.best_buys = change.price,
                                         !.best_buys_size = change.size]
                      ELSE entry
             ELSE entry

RECURSIVE EvPriceChange(_, _)
EvPriceChange(entry, changes) ==
    IF changes = <<>> THEN entry
    ELSE EvPriceChange(EvApplyChange(entry, Head(changes)), Tail(changes))

\* the branch of handle_message for the event's kind, on the asset's entry
EvApplyKind(entry, ev) ==
    IF ev.event_type = "price_change"
    THEN EvPriceChange(entry, ev.changes)
    ELSE ApplyKind(entry, ev)

\* MarketWSSClient.handle_message on one event object, up to the strategy
EvHandleMessage(store, ev) ==
    IF ev.asset_id = NoAsset
    THEN store
    ELSE LET entry == IF ev.asset_id \in DOMAIN store THEN store[ev.asset_id] ELSE EvNewEntry
         IN  Put(store, ev.asset_id, EvApplyKind(entry, ev))

\* the body of the for loop of execute_investment_strategy: TRUE when the
\* token is appended to orders
EvIncluded(data) ==
    /\ data.best_sells # NoValue /\ IsNumeric(data.best_sells)
    /\ data.best_sells_size # NoValue /\ IsNumeric(data.best_sells_size)

RECURSIVE EvScanOrders(_, _)
EvScanOrders(store, keys) ==
    IF keys = <<>>
    THEN <<>>
    ELSE LET token_id == Head(keys)
             data == store[token_id]
         IN  (IF EvIncluded(data)
              THEN <<[token_id |-> token_id, price |-> data.best_sells,
                      size |-> data.best_sells_size, optimal_size |-> NoValue]>>
              ELSE <<>>)
             \o EvScanOrders(store, Tail(keys))

\* total_price < 100 and orders
EvTriggers(orders) == SumPrices(orders) < EvThreshold /\ orders # <<>>

EvAnalysisEntry(orders) ==
    [log_orders  |-> [i \in 1..Len(orders) |->
                         [token_id |-> orders[i].token_id,
                          best_sell_price |-> orders[i].price,
                          best_sell_size |-> orders[i].size]],
     total_price |-> SumPrices(orders)]

\* execute_investment_strategy on the store the event left, to its return:
\* the analysis entry, and when the run triggers the record, its append to
\* the order log and the gather of its send_order calls
execute_investment_strategy(store, keys, a_in, a_out, o_in, o_out) ==
    LET scanned == EvScanOrders(store, keys)
        orders  == WithOptimal(scanned)
        record  == [order_id |-> next_id + 1,
                    total_price |-> SumPrices(scanned),
                    orders |-> orders]
    IN  /\ analysis_log' = AppendToFile(analysis_log, EvAnalysisEntry(scanned), a_in, a_out)
        /\ IF EvTriggers(scanned)
           THEN /\ next_id' = next_id + 1
                /\ wrapped_order' = record
                /\ order_log' = AppendToFile(order_log, record, o_in, o_out)
                /\ send_tasks' = [i \in 1..Len(orders) |->
                                     [SendTasks(orders)[i] EXCEPT !.status = "success"]]
           ELSE /\ o_in = "ok" /\ o_out = "ok"
                /\ wrapped_order' = NoOrder
                /\ send_tasks' = <<>>
                /\ UNCHANGED <<next_id, order_log>>

EvEvent(kind, a, bids, asks, changes, tick) ==
    [event_type |-> kind, asset_id |-> a, bids |-> bids, asks |-> asks, changes |-> changes,
     old_tick_size |-> tick.old, new_tick_size |-> tick.new]

EvNoTick == [old |-> EvDefaultTick, new |-> EvDefaultTick]

\* handle_message on the next event object of the frame: the store update
\* and, for a book or price_change event with an asset id, the strategy
EvHandle(ev, a_in, a_out, o_in, o_out) ==
    /\ frame_left > 0
    /\ frame_left' = frame_left - 1
    /\ token_data' = EvHandleMessage(token_data, ev)
    /\ token_keys' = handle_message_keys(token_keys, ev)
    /\ seen' = IF ev.asset_id = NoAsset THEN seen ELSE seen \cup {ev.asset_id}
    /\ latest_tick' = IF ev.asset_id # NoAsset /\ ev.event_type = "tick_size_change"
                      THEN Put(latest_tick, ev.asset_id, ev.new_tick_size)
                      ELSE latest_tick
    /\ IF ev.asset_id # NoAsset /\ ev.event_type \in {"book", "price_change"}
       THEN execute_investment_strategy(EvHandleMessage(token_data, ev),
                                        handle_message_keys(token_keys, ev),
                                        a_in, a_out, o_in, o_out)
       ELSE /\ a_in = "ok" /\ a_out = "ok" /\ o_in = "ok" /\ o_out = "ok"
            /\ UNCHANGED <<analysis_log, next_id, wrapped_order, order_log, send_tasks>>
    /\ UNCHANGED <<last_event, trade_log, runvars, bookvars, listening, iteration, scan_pc, scan_info, savevars, budget>>

InitEvent == InitBook /\ InitScan /\ InitRunning /\ budget = EventBudget

NextEvent ==
    \/ \E n \in 1..MaxFrame : RecvFrame(n) /\ UNCHANGED runvars
    \/ RecvError /\ UNCHANGED runvars
    \/ \E a \in Assets, bids \in SeqsUpTo(EvBidItems, MaxEvLevels),
          asks \in SeqsUpTo(EvAskItems, MaxEvLevels),
          a_in, o_in \in ReadOutcomes, a_out, o_out \in WriteOutcomes :
          EvHandle(EvEvent("book", a, bids, asks, <<>>, EvNoTick), a_in, a_out, o_in, o_out)
    \/ \E a \in Assets, changes \in SeqsUpTo(EvChangeItems, MaxEvLevels),
          a_in, o_in \in ReadOutcomes, a_out, o_out \in WriteOutcomes :
          EvHandle(EvEvent("price_change", a, <<>>, <<>>, changes, EvNoTick),
                   a_in, a_out, o_in, o_out)
    \/ \E a \in Assets, t \in EvTickChanges :
          EvHandle(EvEvent("tick_size_change", a, <<>>, <<>>, <<>>, t), "ok", "ok", "ok", "ok")
    \/ \E a \in Assets \cup {NoAsset}, kind \in {"last_trade_price", "book"} :
          /\ kind = "book" => a = NoAsset
          /\ EvHandle(EvEvent(kind, a, <<>>, <<>>, <<>>, EvNoTick), "ok", "ok", "ok", "ok")

SpecEvent == InitEvent /\ [][NextEvent]_vars

NextBook ==
    \/ \E a \in BookAssets, buys \in SeqsUpTo(BookLevelItems, MaxBookLevels),
          sells \in SeqsUpTo(RawLevelItems, MaxBookLevels) : HBook(a, buys, sells)
    \/ \E a \in BookAssets, changes \in SeqsUpTo(BookChangeItems, MaxChanges) :
          HPriceChange(a, changes)
    \/ \E a \in BookAssets, t \in BookTicks : HTickSizeChange(a, t)
    \/ \E a \in BookAssets, p \in BookTrades : HLastTradePrice(a, p)

InitB == InitBook /\ InitScan /\ InitRunning /\ budget = NoBudget

SpecBook == InitB /\ [][NextBook]_vars

\* ------------------------------------------------------------------------
\* Claims about the level-set book (SpecBook)
\* ------------------------------------------------------------------------

\* the levels of a reference side, by ascending price
RECURSIVE LevelsOf(_, _)
LevelsOf(side, prices) ==
    IF prices = {}
    THEN <<>>
    ELSE LET p == SetMin(prices)
         IN  (IF side[p] > 0 THEN <<[price |-> p, size |-> side[p]]>> ELSE <<>>)
             \o LevelsOf(side, prices \ {p})

\* a fresh book built directly from a reference level set
FreshBook(ref) == BookMessage(LevelsOf(ref.buy, BookPrices), LevelsOf(ref.sell, BookPrices))

LevelsAt(levels, p) == {i \in 1..Len(levels) : levels[i].price = p}

SideOf(book, side) == IF side = "buy" THEN book.buys ELSE book.sells

BestOf(book, side) == IF side = "buy" THEN extract_best_buy(book) ELSE extract_best_sell(book)

\* C1: after any sequence of price_change deltas applied to a book that
\* started as a proper level set, the best bid and the best ask read from
\* the book equal those of a fresh book built from the final level set
\* (per side and price the size of the last delta; size 0: absent).
C1_DeltasConverge ==
    \A a \in DOMAIN books :
        levelset[a].proper =>
            /\ extract_best_buy(books[a]) = extract_best_buy(FreshBook(levelset[a]))
            /\ extract_best_sell(books[a]) = extract_best_sell(FreshBook(levelset[a]))

\* C2: a price whose last delta had size 0 is no level of the named side
\* and is not returned as best bid/ask; a price whose last delta had a
\* nonzero size is a level of the side with that size.
C2_ZeroRemovesNonzeroRestores ==
    \A a \in DOMAIN books : \A side \in BookSides : \A p \in BookPrices :
        levelset[a].proper =>
            /\ levelset[a][side][p] = 0 =>
                   /\ LevelsAt(SideOf(books[a], side), p) = {}
                   /\ BestOf(books[a], side).price # p
            /\ levelset[a][side][p] > 0 =>
                   \E i \in LevelsAt(SideOf(books[a], side), p) :
                       SideOf(books[a], side)[i].size = levelset[a][side][p]

\* the levels of a side that hold a size above 0
Positive(levels) == {i \in 1..Len(levels) : levels[i].size > 0}

\* C10: the best ask is the minimum price among the ask levels with size
\* above 0, the best bid the maximum price among such bid levels; a level
\* of size 0 is never the best level, and a side with no level of size
\* above 0 has no best level.
C10_BestAmongPositive ==
    \A a \in DOMAIN books :
        LET b == books[a]
        IN  /\ IF Positive(b.sells) = {}
               THEN extract_best_sell(b).price = NoValue
               ELSE /\ extract_best_sell(b).price =
                          SetMin({b.sells[i].price : i \in Positive(b.sells)})
                    /\ extract_best_sell(b).size > 0
            /\ IF Positive(b.buys) = {}
               THEN extract_best_buy(b).price = NoValue
               ELSE /\ extract_best_buy(b).price =
                          SetMax({b.buys[i].price : i \in Positive(b.buys)})
                    /\ extract_best_buy(b).size > 0

\* ------------------------------------------------------------------------
\* Claims about the scanner cycle (SpecScan)
\* ------------------------------------------------------------------------

\* the tick size an instrument is at: that of its latest tick_size_change
\* event, the default when none arrived
CurrentTick(a) == IF a \in DOMAIN latest_tick THEN latest_tick[a] ELSE DefaultTick

\* the instrument holds a best ask in the store
HasAsk(a) == a \in seen /\ token_data[a].best_sells # NoValue

\* the instrument qualifies: it has an ask priced above its tick size
Qualifies(a) == HasAsk(a) /\ token_data[a].best_sells > CurrentTick(a)

Qualifying == {a \in Assets : Qualifies(a)}

RECURSIVE AskSum(_)
AskSum(S) ==
    IF S = {} THEN 0
    ELSE LET a == CHOOSE x \in S : TRUE
         IN  token_data[a].best_sells + AskSum(S \ {a})

\* the aggregate S and the uniform size U of the store as it stands
AggregateS == AskSum(Qualifying)

UniformU == SetMin({token_data[a].best_sells_size : a \in Qualifying})

\* a step that is one scanner cycle
ScanStep == iteration' = iteration + 1

IntentTokens(orders) == {orders[i].token_id : i \in 1..Len(orders)}

\* C3: in a scanner cycle where an instrument qualifies and S < T, exactly
\* one Decision Record is emitted; it has one intent per included
\* instrument, each with that instrument's best-ask price and allocated
\* size U, the minimum best-ask size among the included instruments; one
\* order is dispatched per intent, weighted exactly when the instrument's
\* best-ask size differs from U; a completed log write ends with the record.
C3_TriggerEmitsOneRecord ==
    [][(ScanStep /\ Qualifying # {} /\ AggregateS < Threshold) =>
          LET rec == wrapped_order'
          IN  /\ next_id' = next_id + 1
              /\ rec.order_id = next_id'
              /\ rec.total_price = AggregateS
              /\ Len(rec.orders) = Cardinality(Qualifying)
              /\ IntentTokens(rec.orders) = Qualifying
              /\ \A i \in 1..Len(rec.orders) :
                    LET a == rec.orders[i].token_id
                    IN  /\ rec.orders[i].price = token_data[a].best_sells
                        /\ rec.orders[i].size = token_data[a].best_sells_size
                        /\ rec.orders[i].optimal_size = UniformU
              /\ Len(send_tasks') = Len(rec.orders)
              /\ \A i \in 1..Len(rec.orders) :
                    LET a == rec.orders[i].token_id
                    IN  /\ send_tasks'[i].token_id = a
                        /\ send_tasks'[i].order_price = token_data[a].best_sells
                        /\ send_tasks'[i].order_size = UniformU
                        /\ send_tasks'[i].weighted = (token_data[a].best_sells_size # UniformU)
              /\ (order_log'.ok /\ order_log' # order_log) =>
                    order_log'.recs[Len(order_log'.recs)] = rec
      ]_vars

\* the example of the decision rule: A (ask 0.40, size 100) and B (ask 0.50,
\* size 50) gave one record with two intents of size 50, A's weighted
C3_Witness ==
    /\ scan_pc = "send"
    /\ Len(wrapped_order.orders) = 2
    /\ \E i, j \in 1..2 :
          /\ wrapped_order.orders[i] =
                [token_id |-> "A", price |-> 4000, size |-> 100, optimal_size |-> 50]
          /\ wrapped_order.orders[j] =
                [token_id |-> "B", price |-> 5000, size |-> 50, optimal_size |-> 50]
          /\ send_tasks[i].weighted /\ ~send_tasks[j].weighted
    /\ order_log.ok /\ Len(order_log.recs) = 1

\* C4: in a scanner cycle where S >= T or no instrument qualifies, no
\* Decision Record is appended to the decision log and no order is
\* dispatched.
C4_NoTriggerEmitsNothing ==
    [][(ScanStep /\ (Qualifying = {} \/ AggregateS >= Threshold)) =>
          /\ order_log' = order_log
          /\ next_id' = next_id
          /\ send_tasks' = <<>>
          /\ wrapped_order' = NoOrder
          /\ scan_pc' = "sleep"
      ]_vars

\* a cycle found S >= T and the session has emitted nothing
C4_Witness ==
    /\ iteration >= 1
    /\ scan_info.total_price >= Threshold
    /\ scan_pc = "sleep"
    /\ next_id = 0 /\ order_log = EmptyFile /\ send_tasks = <<>>

\* the instrument is left out: no ask, or an ask at or below its tick size
LeftOut(a) == ~HasAsk(a) \/ token_data[a].best_sells <= CurrentTick(a)

\* the periodic scanner leaves out every such instrument: the totals it logs
\* are those of the others, and a record it emits holds no intent for it
Scan_LeftOutContributeNothing ==
    [][ScanStep =>
          /\ scan_info'.total_price = AskSum({a \in Assets : ~LeftOut(a)})
          /\ {a \in Assets : ~LeftOut(a)} # {} =>
                scan_info'.optimal_size =
                    SetMin({token_data[a].best_sells_size : a \in {x \in Assets : ~LeftOut(x)}})
          /\ next_id' # next_id =>
                /\ \A i \in 1..Len(wrapped_order'.orders) :
                      ~LeftOut(wrapped_order'.orders[i].token_id)
                /\ \A i \in 1..Len(send_tasks') : ~LeftOut(send_tasks'[i].token_id)
      ]_vars

\* A was left out on a raised tick while B was ordered
Scan_LeftOutWitness ==
    /\ scan_pc = "send"
    /\ "B" \in seen
    /\ LeftOut("A") /\ HasAsk("A")
    /\ scan_info.total_price = token_data["B"].best_sells
    /\ IntentTokens(wrapped_order.orders) = {"B"}

\* ------------------------------------------------------------------------
\* Claims about the strategy of the event-driven client (SpecEvent)
\* ------------------------------------------------------------------------

\* C5: an instrument with no ask, or with a best-ask price at or below its
\* current tick size (that of its latest tick_size_change event, else the
\* default), is in no order intent of an emitted Decision Record and adds
\* nothing to the record's aggregate.
C5_LeftOutOfEveryRecord ==
    [][next_id' # next_id =>
          LET rec     == wrapped_order'
              tick(a) == IF a \in DOMAIN latest_tick' THEN latest_tick'[a] ELSE EvDefaultTick
              kept    == {a \in DOMAIN token_data' :
                             /\ token_data'[a].best_sells # NoValue
                             /\ token_data'[a].best_sells > tick(a)}
          IN  /\ IntentTokens(rec.orders) \subseteq kept
              /\ \A i \in 1..Len(rec.orders) :
                    rec.orders[i].price > tick(rec.orders[i].token_id)
      ]_vars

\* ------------------------------------------------------------------------
\* Claims about the decision log (SpecScan)
\* ------------------------------------------------------------------------

\* C6: after k triggering cycles the decision log holds exactly k records,
\* with distinct ids, in the order of the cycles.
C6_LogHoldsEveryDecision ==
    /\ order_log.ok
    /\ Len(order_log.recs) = next_id
    /\ \A i \in 1..Len(order_log.recs) : order_log.recs[i].order_id = i

\* C7: an append that completes leaves every record the log held before it
\* in place and unchanged, and puts the new record last.
C7_AppendOnly ==
    [][(next_id' # next_id /\ order_log.ok /\ order_log'.ok /\ order_log' # order_log) =>
          /\ Len(order_log'.recs) = Len(order_log.recs) + 1
          /\ SubSeq(order_log'.recs, 1, Len(order_log.recs)) = order_log.recs
          /\ order_log'.recs[Len(order_log'.recs)] = wrapped_order'
      ]_vars

\* ------------------------------------------------------------------------
\* Claims about the snapshot file (SpecScan)
\* ------------------------------------------------------------------------

\* C8, as stated: whenever the snapshot file deserializes, its key set is
\* the set of instruments that have received an event.
C8_SnapshotKeysAreSeen == snapshot.ok => DOMAIN snapshot.data = seen

\* C8, amended: a snapshot write that completes leaves a file whose key set
\* is the set of instruments that had received an event by then; whenever
\* the file deserializes, every key of it is such an instrument.
C8_SnapshotKeysWereSeen ==
    [][/\ (snapshot'.ok /\ snapshot' # snapshot) => DOMAIN snapshot'.data = seen
       /\ snapshot'.ok => DOMAIN snapshot'.data \subseteq seen'
      ]_vars

\* the file was written when only A had received an event; B has since
C8_Witness ==
    /\ snapshot.ok
    /\ DOMAIN snapshot.data = {"A"}
    /\ seen = {"A", "B"}

\* ------------------------------------------------------------------------
\* Claims about the best-level store (SpecStore)
\* ------------------------------------------------------------------------

\* the levels of an event's side that float() accepts
NumericLevels(levels) ==
    {levels[i] : i \in {j \in 1..Len(levels) :
                           IsNumeric(levels[j].price) /\ IsNumeric(levels[j].size)}}

\* the stored level is none when the side carries no level, else a level the
\* side carries with no level of the side at a better price
HoldsBestOf(price, size, levels, is_ask) ==
    IF NumericLevels(levels) = {}
    THEN price = NoValue /\ size = NoValue
    ELSE /\ [price |-> price, size |-> size] \in NumericLevels(levels)
         /\ \A l \in NumericLevels(levels) : IF is_ask THEN price <= l.price ELSE price >= l.price

\* C9: after a book event for an instrument, each side of its entry holds
\* the best level of the event's side, or none when the side carries no
\* level: nothing held before survives unless the event carries it.
C9_BookReplacesSides ==
    (last_event.ev.event_type = "book" /\ last_event.ev.asset_id # NoAsset) =>
        LET ev == last_event.ev
            e  == token_data[ev.asset_id]
        IN  /\ HoldsBestOf(e.best_sells, e.best_sells_size, ev.asks, TRUE)
            /\ HoldsBestOf(e.best_buys, e.best_buys_size, ev.bids, FALSE)

\* an instrument that held an ask at 0.40 and a bid got a book event that
\* carries one ask, at 0.50, and no bid: it holds that ask and no bid
C9_Witness ==
    /\ last_event.ev.event_type = "book"
    /\ last_event.ev.asset_id = "A"
    /\ "A" \in DOMAIN last_event.before
    /\ last_event.before["A"].best_sells = 4000
    /\ last_event.before["A"].best_buys = 3000
    /\ last_event.ev.asks = <<[price |-> 5000, size |-> 50]>>
    /\ last_event.ev.bids = <<>>
    /\ token_data["A"].best_sells = 5000
    /\ token_data["A"].best_buys = NoValue

\* ------------------------------------------------------------------------
\* More claims about the level-list book (SpecBook)
\* ------------------------------------------------------------------------

\* C11: each side of each instrument's book holds at most one level per
\* distinct price; of several levels a book event carries at one price on
\* one side, one is kept, with the size of the last of them.
C11_OneLevelPerPrice ==
    \A a \in DOMAIN books : \A side \in BookSides :
        LET levels == SideOf(books[a], side)
        IN  /\ \A i, j \in 1..Len(levels) : levels[i].price = levels[j].price => i = j
            /\ ~levelset[a].deltas =>
                  \A i \in 1..Len(levels) : levels[i].size = levelset[a][side][levels[i].price]

\* ------------------------------------------------------------------------
\* More claims about the best-level store (SpecStore)
\* ------------------------------------------------------------------------

\* the ask-side deltas of a price_change event that hold a size above 0 at
\* a price below the best ask the instrument held
BetterAsks(ev, before) ==
    {i \in 1..Len(ev.changes) :
        /\ ev.changes[i].side = "SELL"
        /\ ev.changes[i].size > 0
        /\ IsNumeric(ev.changes[i].price)
        /\ ev.asset_id \in DOMAIN before
        /\ IsNumeric(before[ev.asset_id].best_sells)
        /\ ev.changes[i].price < before[ev.asset_id].best_sells}

\* C12: after a price_change event that carries an ask-side delta of
\* nonzero size at a price below the instrument's best ask, the best ask
\* the store holds for the scanner is the delta's price and size.
C12_PriceChangeMerged ==
    (last_event.ev.event_type = "price_change" /\ last_event.ev.asset_id # NoAsset) =>
        \A i \in BetterAsks(last_event.ev, last_event.before) :
            /\ token_data[last_event.ev.asset_id].best_sells = last_event.ev.changes[i].price
            /\ token_data[last_event.ev.asset_id].best_sells_size = last_event.ev.changes[i].size

\* ------------------------------------------------------------------------
\* Periodic-scanner client: run(), from connect() to its three tasks, with
\* the frames recv() returns kept element by element (SpecRun)
\* ------------------------------------------------------------------------

RunBudget == [events |-> 3, cycles |-> 1, saves |-> 1]

\* ask levels per book event of a kept frame, and what they are drawn from
MaxRunLevels == 1
RunAskItems == {[price |-> 4000, size |-> 50]}

\* an element of an array frame that is no JSON object: message.get raises
NotAnObject == Event("<not an object>", NoAsset, <<>>, <<>>, NoTick)

\* the elements a kept frame can carry
RunElements ==
    {Event("book", a, <<>>, asks, NoTick) : a \in Assets, asks \in SeqsUpTo(RunAskItems, MaxRunLevels) \ {<<>>}}
        \cup {Event("other", "A", <<>>, <<>>, NoTick), Event("book", NoAsset, <<>>, <<>>, NoTick),
              NotAnObject}

\* run() after connect(): it raises what connect() raises
AfterConnect_Swallow(ok) == "subscribe"

AfterConnect(ok) == IF ok THEN "subscribe" ELSE "raised"

\* connect(): the handshake completes or websockets.connect raises
Connect(ok) ==
    /\ run_pc = "connect"
    /\ handshake' = IF ok THEN "ok" ELSE "failed"
    /\ run_pc' = AfterConnect(ok)
    /\ UNCHANGED <<bookvars, storevars, recvvars, scanvars, savevars, budget, last_event, trade_log,
                   sub_sent, frame, received, applied>>

\* a wrong variant: run() raises what the send of the subscription raised
AfterSubscribe_Raises(ok) == IF ok THEN "gather" ELSE "raised"

\* run() after subscribe(): subscribe() catches what send raises, logs it
\* and returns, and run() goes on to gather its three tasks either way
AfterSubscribe(ok) == "gather"

\* subscribe(): the frame is sent, or send raises and the error is logged
Subscribe(ok) ==
    /\ run_pc = "subscribe"
    /\ ok => handshake = "ok"
    /\ sub_sent' = ok
    /\ run_pc' = AfterSubscribe(ok)
    /\ UNCHANGED <<bookvars, storevars, recvvars, scanvars, savevars, budget, last_event, trade_log,
                   handshake, frame, received, applied>>

\* a wrong variant: the gather returns when its first task has returned
AfterListen_Returns == "returned"

\* run() after listen() has returned: asyncio.gather goes on waiting for
\* save_token_data and investment_strategy_monitor, which are while True
\* loops without break or return
AfterListen == "gather"

\* listen(): recv() returns a frame that json.loads decodes to the array f
RunRecvFrame(f) ==
    /\ run_pc = "gather"
    /\ handshake = "ok"
    /\ RecvFrame(Len(f))
    /\ frame' = f
    /\ received' = Append(received, [kind |-> "frame", elems |-> f])
    /\ UNCHANGED <<run_pc, handshake, sub_sent, applied>>

\* listen(): recv() raises (kind "closed") or json.loads raises (kind "invalid")
RunRecvError(kind) ==
    /\ run_pc = "gather"
    /\ kind = "invalid" => handshake = "ok"
    /\ RecvError
    /\ received' = Append(received, [kind |-> kind, elems |-> <<>>])
    /\ run_pc' = AfterListen
    /\ UNCHANGED <<handshake, sub_sent, frame, applied>>

\* for m in message: the element handled next and those after it
TakeNext_Last(f) == [ev |-> f[Len(f)], rest |-> SubSeq(f, 1, Len(f) - 1)]

TakeNext(f) == [ev |-> Head(f), rest |-> Tail(f)]

\* handle_message on the next element of the frame, an event object
RunHandle ==
    /\ frame # <<>>
    /\ TakeNext(frame).ev # NotAnObject
    /\ HandleEvent(TakeNext(frame).ev)
    /\ frame' = TakeNext(frame).rest
    /\ applied' = Append(applied, TakeNext(frame).ev)
    /\ UNCHANGED <<last_event, trade_log, run_pc, handshake, sub_sent, received>>

\* handle_message on the next element of the frame, no object: message.get
\* raises, the exception leaves every handle_message of the frame and
\* listen() leaves its loop
RunHandleRaises ==
    /\ frame # <<>>
    /\ TakeNext(frame).ev = NotAnObject
    /\ frame' = <<>>
    /\ frame_left' = 0
    /\ listening' = FALSE
    /\ run_pc' = AfterListen
    /\ UNCHANGED <<bookvars, storevars, scanvars, savevars, budget, last_event, trade_log,
                   handshake, sub_sent, received, applied>>

InitRun ==
    /\ InitBook
    /\ InitScan
    /\ run_pc = "connect"
    /\ handshake = "pending"
    /\ sub_sent = FALSE
    /\ frame = <<>>
    /\ received = <<>>
    /\ applied = <<>>
    /\ budget = RunBudget

NextRun ==
    \/ \E ok \in BOOLEAN : Connect(ok)
    \/ \E ok \in BOOLEAN : Subscribe(ok)
    \/ \E f \in SeqsUpTo(RunElements, MaxFrame) \ {<<>>} : RunRecvFrame(f)
    \/ \E kind \in {"closed", "invalid"} : RunRecvError(kind)
    \/ RunHandle
    \/ RunHandleRaises
    \/ \E a_in, o_in \in ReadOutcomes, a_out, o_out \in WriteOutcomes :
          run_pc = "gather" /\ ScanCycle(a_in, a_out, o_in, o_out)
    \/ \E i \in 1..Cardinality(Assets) : run_pc = "gather" /\ SendOrderDone(i)
    \/ \E i \in 1..Cardinality(Assets) : run_pc = "gather" /\ SendOrderFails(i)
    \/ run_pc = "gather" /\ GatherDone
    \/ \E outcome \in WriteOutcomes : run_pc = "gather" /\ SaveTokenData(outcome)

SpecRun == InitRun /\ [][NextRun]_vars

\* ------------------------------------------------------------------------
\* Claims about the receive loop and run() (SpecRun)
\* ------------------------------------------------------------------------

\* the elements of the frames received, in arrival order
RECURSIVE Flat(_)
Flat(rs) == IF rs = <<>> THEN <<>> ELSE Head(rs).elems \o Flat(Tail(rs))

IsPrefix(s, t) == Len(s) <= Len(t) /\ SubSeq(t, 1, Len(s)) = s

\* C13: events are applied to the store in arrival order: the events
\* applied so far are, in order, the first elements of the frames received
\* so far, frame by frame and in array order within a frame; and when
\* recv() returns, every element of the frames before has been handled.
C13_ArrivalOrder ==
    /\ [](IsPrefix(applied, Flat(received)))
    /\ [][received' # received => (frame = <<>> /\ applied = Flat(received))]_vars

\* two frames have been handled, the first an array of two different events
C13_Witness ==
    /\ Len(received) = 2
    /\ received[1].kind = "frame" /\ received[2].kind = "frame"
    /\ Len(received[1].elems) = 2
    /\ received[1].elems[1] # received[1].elems[2]
    /\ applied = Flat(received)

\* C14: a scanner cycle and a snapshot write each work on one store state,
\* a state between frames: the step of either task is taken when no element
\* of a frame is still to be handled, it leaves the store as it is, the
\* totals the cycle logs are those of that store and the snapshot written
\* holds that store.
C14_TasksSeeWholeFrames ==
    [][(iteration' # iteration \/ budget'.saves # budget.saves) =>
          /\ frame = <<>> /\ frame_left = 0
          /\ token_data' = token_data /\ token_keys' = token_keys
          /\ iteration' # iteration =>
                scan_info' = [total_price |-> SumPrices(ScanOrders(token_data, token_keys)),
                              optimal_size |-> OptimalSize(ScanOrders(token_data, token_keys))]
          /\ (budget'.saves # budget.saves /\ snapshot' # snapshot /\ snapshot'.ok) =>
                snapshot'.data = token_data]_vars

\* a cycle has run and a snapshot holds the store after an array frame of
\* two events for two instruments
C14_Witness ==
    /\ iteration = 1
    /\ snapshot.ok
    /\ DOMAIN snapshot.data = {"A", "B"}
    /\ Len(received) = 1
    /\ Len(received[1].elems) = 2
    /\ applied = received[1].elems

\* C15: when the handshake fails, run() has raised what connect() raised:
\* no subscription frame is sent, and the receive loop, the scanner and
\* the snapshot writer never take a step.
C15_FailedConnectRaises ==
    handshake = "failed" =>
        /\ run_pc = "raised"
        /\ ~sub_sent
        /\ received = <<>> /\ applied = <<>> /\ listening
        /\ iteration = 0 /\ scan_pc = "sleep"
        /\ snapshot = NoSnapshot
        /\ budget = RunBudget

C15_Witness == handshake = "failed" /\ run_pc = "raised"

\* recv() has raised: a transport error, or the connection has closed
Closed == \E i \in 1..Len(received) : received[i].kind = "closed"

\* C16: once recv() has raised, the receive loop has ended for good: no
\* frame is received and no event is applied any more, the store stays as
\* it is, and run() never goes back to connect().
C16_NoFrameAfterFailure ==
    [][Closed =>
          /\ ~listening /\ ~listening'
          /\ received' = received /\ applied' = applied
          /\ token_data' = token_data
          /\ run_pc' = run_pc /\ handshake' = handshake]_vars

\* recv() raised after a frame of two events was applied, and the other
\* tasks went on
C16_Witness ==
    /\ Len(received) = 2
    /\ received[1].kind = "frame" /\ Len(applied) = 2
    /\ received[2].kind = "closed"
    /\ ~listening
    /\ snapshot.ok

\* a frame failed to decode, or the handling of an element that is no
\* event object has raised
DecodeFailed ==
    \/ received # <<>> /\ received[Len(received)].kind = "invalid"
    \/ /\ frame = <<>>
       /\ Len(applied) < Len(Flat(received))
       /\ Flat(received)[Len(applied) + 1] = NotAnObject

\* C17: after a frame that is not valid JSON, or an element that is no
\* event object, the receive loop is still running, ready to receive and
\* apply the next frame.
C17_DecodeFailureGoesOn == DecodeFailed => listening

\* the store after handle_message on each of the events, in order
RECURSIVE ApplyAll(_, _)
ApplyAll(store, evs) ==
    IF evs = <<>> THEN store ELSE ApplyAll(handle_message(store, Head(evs)), Tail(evs))

HasAsset(ev) == ev.asset_id # NoAsset

\* C18: an event without an instrument id creates and changes no
\* instrument's state, and the events around it are applied as if it were
\* absent: the store is at every state what the events that carry an
\* instrument id, applied in order without the others, make of it.
C18_NoAssetAsIfAbsent ==
    /\ token_data = ApplyAll(<<>>, SelectSeq(applied, HasAsset))
    /\ DOMAIN token_data \subseteq Assets

\* an array frame of an event without instrument id and then a book event
\* for A has been handled
C18_Witness ==
    /\ Len(received) = 1
    /\ Len(applied) = 2
    /\ applied[1].asset_id = NoAsset
    /\ applied[2].asset_id = "A" /\ applied[2].asks # <<>>
    /\ token_data["A"].best_sells = 4000

\* ------------------------------------------------------------------------
\* More claims about the best-level store: events of unknown kind
\* ------------------------------------------------------------------------

\* C20: an event whose kind is none of the known kinds leaves the store as
\* it was: it creates no instrument's entry and changes none.
C20_UnknownKindDropped ==
    (last_event.ev.event_type = "other" /\ last_event.ev.asset_id # NoAsset) =>
        token_data = last_event.before

\* ------------------------------------------------------------------------
\* More claims about the level-list book: non-numeric fields
\* ------------------------------------------------------------------------

\* C19: a level or delta whose price or size is not a number is skipped:
\* every level a book holds has a price that some level or delta carried as
\* a number, and so has the best bid and the best ask read from it.
C19_NonNumericSkipped ==
    \A a \in DOMAIN books : \A side \in BookSides :
        /\ \A i \in 1..Len(SideOf(books[a], side)) : SideOf(books[a], side)[i].price \in BookPrices
        /\ BestOf(books[a], side).price \in BookPrices \cup {NoValue}

\* ------------------------------------------------------------------------
\* Claims about the scanner's dispatch, its logs and the snapshot writer
\* ------------------------------------------------------------------------

Pending(i) == send_tasks[i].status = "pending"

\* C21: a cycle that emits a Decision Record starts one send_order call per
\* order intent, all pending together; each call ends on its own with the
\* result success or error, and its ending changes no other call; while the
\* scanner awaits them every pending call can still end, whatever the
\* results of the others; the gather returns only when none is pending, and
\* the scanner then sleeps until its next cycle.
C21_SubmissionsIndependent ==
    /\ []((scan_pc = "send" /\ frame_left = 0) =>
             /\ \A i \in 1..Len(send_tasks) :
                   Pending(i) => (ENABLED SendOrderDone(i)) /\ (ENABLED SendOrderFails(i))
             /\ (\A i \in 1..Len(send_tasks) : ~Pending(i)) => ENABLED GatherDone)
    /\ [][(ScanStep /\ wrapped_order' # NoOrder) =>
             /\ scan_pc' = "send"
             /\ Len(send_tasks') = Len(wrapped_order'.orders)
             /\ \A i \in 1..Len(send_tasks') :
                   /\ send_tasks'[i].token_id = wrapped_order'.orders[i].token_id
                   /\ send_tasks'[i].status = "pending"]_vars
    /\ [][(scan_pc = "send" /\ scan_pc' = "send" /\ send_tasks' # send_tasks) =>
             \E i \in 1..Len(send_tasks) :
                /\ Pending(i)
                /\ send_tasks'[i].status \in {"success", "error"}
                /\ send_tasks' = [send_tasks EXCEPT ![i].status = send_tasks'[i].status]]_vars
    /\ [][(scan_pc = "send" /\ scan_pc' # "send") =>
             /\ scan_pc' = "sleep"
             /\ \A i \in 1..Len(send_tasks) : ~Pending(i)]_vars

\* of the two calls of one record, the first has failed and the second has
\* succeeded after it
C21_Witness ==
    /\ scan_pc = "send"
    /\ Len(send_tasks) = 2
    /\ send_tasks[1].status = "error"
    /\ send_tasks[2].status = "success"

\* C22: a pass of the snapshot writer, failed or not, stops no task: it
\* leaves the receive loop, the scanner and the store as they are, and the
\* writer's next pass can be taken whatever the earlier passes logged; a
\* pass that succeeds leaves in the snapshot file the whole store of that
\* instant.
C22_FailedWriteRetried ==
    /\ []((frame_left = 0 /\ budget.saves > 0) =>
             \A outcome \in WriteOutcomes : ENABLED SaveTokenData(outcome))
    /\ [][save_log' # save_log =>
             /\ listening' = listening
             /\ scan_pc' = scan_pc /\ iteration' = iteration
             /\ token_data' = token_data /\ token_keys' = token_keys
             /\ save_log'[Len(save_log')] = "ok" =>
                   snapshot' = [ok |-> TRUE, data |-> token_data]]_vars

\* a pass failed while it wrote, the next pass succeeded, and the file
\* holds the store, which is not empty
C22_Witness ==
    /\ save_log = <<"dump_fails", "ok">>
    /\ token_data # <<>>
    /\ snapshot = [ok |-> TRUE, data |-> token_data]

\* K of the throttle
EveryK == 5

\* C23: the analysis log is written by the scanner only, in its cycles 5,
\* 10, 15, ... and in no other cycle: such a cycle appends its entry (the
\* outcome is that of the read-modify-write of the log file), whether or not
\* it emits a decision; after n cycles the log holds at most n \div K entries.
C23_AnalysisEveryKth ==
    /\ [](Len(analysis_log.recs) <= iteration \div EveryK)
    /\ [][IF ScanStep /\ iteration' % EveryK = 0
          THEN \E read \in ReadOutcomes, outcome \in WriteOutcomes :
                  analysis_log' =
                      AppendToFile(analysis_log,
                                   AnalysisEntry(iteration', ScanOrders(token_data, token_keys)),
                                   read, outcome)
          ELSE analysis_log' = analysis_log]_vars

\* the fifth cycle has emitted a decision and the log holds its entry, the
\* first
C23_Witness ==
    /\ iteration = 5
    /\ scan_pc = "send"
    /\ analysis_log.ok
    /\ Len(analysis_log.recs) = 1
    /\ analysis_log.recs[1].total_price = wrapped_order.total_price

\* ------------------------------------------------------------------------
\* Claims about what one event does to the best-level store (SpecStore)
\* ------------------------------------------------------------------------

\* the entry an event for the asset met: the stored one, or the new one
PriorEntry(a) == IF a \in DOMAIN last_event.before THEN last_event.before[a] ELSE NewEntry

\* every other instrument's entry is as the event met it
OthersKept(a) ==
    /\ DOMAIN token_data = DOMAIN last_event.before \cup {a}
    /\ \A b \in DOMAIN last_event.before \ {a} : token_data[b] = last_event.before[b]

SameBest(e1, e2) ==
    /\ e1.best_buys = e2.best_buys /\ e1.best_buys_size = e2.best_buys_size
    /\ e1.best_sells = e2.best_sells /\ e1.best_sells_size = e2.best_sells_size

\* C24: after a tick_size_change event the instrument's entry holds the
\* event's old and new tick size and the best bid and best ask it held
\* before, and every other instrument's entry is unchanged.
C24_TickChangeOnlyTick ==
    (last_event.ev.event_type = "tick_size_change" /\ last_event.ev.asset_id # NoAsset) =>
        LET a == last_event.ev.asset_id
        IN  /\ token_data[a].old_tick_size = last_event.ev.old_tick_size
            /\ token_data[a].new_tick_size = last_event.ev.new_tick_size
            /\ SameBest(token_data[a], PriorEntry(a))
            /\ OthersKept(a)

\* a tick_size_change event for A came after a book event for A
C24_Witness ==
    /\ last_event.ev.event_type = "tick_size_change"
    /\ last_event.ev.asset_id = "A"
    /\ "A" \in DOMAIN last_event.before
    /\ last_event.before["A"].best_sells = 4000
    /\ last_event.before["A"].new_tick_size = 10
    /\ token_data["A"].new_tick_size = 4500

\* ------------------------------------------------------------------------
\* More claims about the level-list book: what an event leaves alone
\* ------------------------------------------------------------------------

\* C25: a book event leaves the tick size of a known instrument at its
\* prior value: the tick size a book holds changes only to the tick size
\* of a tick_size_change event, never back to the default constant.
C25_BookKeepsTick ==
    [][\A a \in DOMAIN books :
          \/ books'[a].tick_size = books[a].tick_size
          \/ books'[a].tick_size \in BookTicks]_vars

\* the prices the numeric deltas of an event name on a side
NamedPrices(changes, side) ==
    {changes[k].price : k \in {j \in 1..Len(changes) :
        changes[j].side = side /\ IsNumeric(changes[j].price) /\ IsNumeric(changes[j].size)}}

\* the book after the deltas differs from the book before only in levels at
\* prices the deltas name, on the side they name them on
OnlyNamedChanged(before, changes, after) ==
    /\ after.tick_size = before.tick_size
    /\ \A side \in BookSides :
          LET old   == SideOf(before, side)
              new   == SideOf(after, side)
              named == NamedPrices(changes, side)
          IN  /\ Len(new) >= Len(old)
              /\ \A i \in 1..Len(old) : old[i].price \notin named => new[i] = old[i]
              /\ \A i \in 1..Len(new) : new[i].price \notin named => i <= Len(old)

LastTradeOf(entry) ==
    IF "last_trade_price" \in DOMAIN entry THEN entry.last_trade_price ELSE NoValue

\* C27: after a last_trade_price event for an instrument, the instrument's
\* state holds the event's price as its last traded price, and its best
\* levels and tick sizes are those it had before.
C27_LastTradeRecorded ==
    (last_event.ev.event_type = "last_trade_price" /\ last_event.ev.asset_id # NoAsset
        /\ IsNumeric(last_event.ev.price)) =>
        LET a == last_event.ev.asset_id
        IN  /\ LastTradeOf(token_data[a]) = last_event.ev.price
            /\ SameBest(token_data[a], PriorEntry(a))
            /\ token_data[a].old_tick_size = PriorEntry(a).old_tick_size
            /\ token_data[a].new_tick_size = PriorEntry(a).new_tick_size

\* ------------------------------------------------------------------------
\* The store's key set
\* ------------------------------------------------------------------------

MarketKinds == {"book", "price_change", "tick_size_change", "last_trade_price"}

\* C28: the store starts empty; once an event of one of the four market
\* kinds has named an instrument, the instrument has a state in the store;
\* a step adds at most the instrument the event handled names and removes
\* none: the key set only grows.
C28_KeySetOnlyGrows ==
    /\ token_data = <<>>
    /\ []((last_event.ev.event_type \in MarketKinds /\ last_event.ev.asset_id # NoAsset) =>
            last_event.ev.asset_id \in DOMAIN token_data)
    /\ [][/\ DOMAIN token_data \subseteq DOMAIN token_data'
          /\ DOMAIN token_data' \ DOMAIN token_data \subseteq {last_event'.ev.asset_id}]_vars

\* an instrument whose state a last_trade_price event created is still in
\* the store after a later event for another instrument
C28_Witness ==
    /\ last_event.ev.asset_id = "B"
    /\ "A" \in DOMAIN last_event.before
    /\ "B" \notin DOMAIN last_event.before
    /\ DOMAIN token_data = {"A", "B"}
    /\ trade_log.recs # <<>>
    /\ trade_log.recs[1].asset_id = "A"
    /\ latest_tick = <<>>

\* ------------------------------------------------------------------------
\* Who writes the store
\* ------------------------------------------------------------------------

StoreKept == token_data' = token_data /\ token_keys' = token_keys

\* C29: a step of the scanner (the scan, the decision with its log writes,
\* the dispatch and its completion) and a snapshot write leave every
\* instrument's state and the key set as they were; the store changes only
\* in a step in which the receive loop handles an event of a frame.
C29_OnlyReceiveLoopWrites ==
    [][/\ (scanvars' # scanvars \/ savevars' # savevars \/ budget'.cycles # budget.cycles)
            => StoreKept
       /\ ~StoreKept => (frame_left > 0 /\ frame_left' = frame_left - 1)]_vars

\* a cycle has logged a decision and dispatched its orders, a snapshot has
\* been written, and the store still holds the asks the decision was made on
C29_Witness ==
    /\ scan_pc = "sleep"
    /\ order_log.recs # <<>>
    /\ save_log # <<>>
    /\ DOMAIN token_data = {"A", "B"}
    /\ token_data["A"].best_sells = 4000
    /\ token_data["B"].best_sells = 4000

\* ------------------------------------------------------------------------
\* The three tasks of run() under fair scheduling
\* ------------------------------------------------------------------------

\* the session explored
LiveBudget == [events |-> 2, cycles |-> 2, saves |-> 1]

LiveEvents == BookEvents(MaxRunLevels, RunAskItems)

InitLive == InitBook /\ InitScan /\ InitRunning /\ budget = LiveBudget

\* listen(): the elements of a received frame are handled one after another
LiveHandle == \E ev \in LiveEvents : HandleEvent(ev) /\ UNCHANGED <<last_event, trade_log, runvars>>

\* investment_strategy_monitor: its sleep ends and a pass runs
LiveScan ==
    \E a_in, o_in \in ReadOutcomes, a_out, o_out \in WriteOutcomes :
        ScanCycle(a_in, a_out, o_in, o_out)

\* a send_order call returns, with a response or with its error response
LiveSend == \E i \in 1..Cardinality(Assets) : SendOrderDone(i) \/ SendOrderFails(i)

\* save_token_data: its sleep ends and a pass runs
LiveSave == \E outcome \in WriteOutcomes : SaveTokenData(outcome)

NextLive ==
    \/ \E n \in 1..MaxFrame : RecvFrame(n) /\ UNCHANGED runvars
    \/ RecvError /\ UNCHANGED runvars
    \/ LiveHandle
    \/ LiveScan
    \/ LiveSend
    \/ GatherDone
    \/ LiveSave

\* the event loop runs every task that is ready: a sleep that has ended, a
\* frame that has been received, a gather whose calls have returned. Whether
\* and when the server sends a frame or the connection fails is not the
\* loop's to decide: RecvFrame and RecvError are under no fairness
LiveFairness ==
    /\ WF_vars(LiveHandle)
    /\ WF_vars(LiveScan)
    /\ WF_vars(LiveSend)
    /\ WF_vars(GatherDone)
    /\ WF_vars(LiveSave)

SpecLive == InitLive /\ [][NextLive]_vars /\ LiveFairness

\* C30: under fair scheduling the scanner completes every cycle and the
\* snapshot writer every write of the session, on every behaviour, those in
\* which recv() never returns a frame included; and a step of the scanner
\* or of the writer while recv() waits leaves the receive loop waiting, with
\* no error raised.
C30_IdleReceiveBlocksNobody ==
    /\ <>(budget.cycles = 0 /\ scan_pc = "sleep")
    /\ <>(budget.saves = 0)
    /\ [][(scanvars' # scanvars \/ savevars' # savevars) =>
              (listening' = listening /\ frame_left' = frame_left)]_vars

\* every cycle and every write of the session is done, no frame has
\* arrived, and recv() is still waiting
C30_Witness ==
    /\ budget.cycles = 0
    /\ budget.saves = 0
    /\ budget.events = LiveBudget.events
    /\ frame_left = 0
    /\ listening
    /\ iteration = LiveBudget.cycles
    /\ Len(save_log) = LiveBudget.saves
    /\ token_data = <<>>

\* ------------------------------------------------------------------------
\* Claims about the order of a triggering cycle's steps
\* ------------------------------------------------------------------------

\* the record of the decision being dispatched is in the decision log
RecordLogged ==
    \E i \in 1..Len(order_log.recs) : order_log.recs[i].order_id = wrapped_order.order_id

\* C31: the Decision Record is appended to the decision log after the
\* dispatch of its orders: while the record of the current decision is in
\* the log, none of the decision's send_order calls is still to be run.
C31_RecordAfterDispatch ==
    (scan_pc = "send" /\ RecordLogged) => \A i \in 1..Len(send_tasks) : ~Pending(i)

\* ------------------------------------------------------------------------
\* More claims about run() (SpecRun)
\* ------------------------------------------------------------------------

\* the connection is up and subscribe() has returned without having sent
\* the subscription frame
Unsubscribed == handshake = "ok" /\ ~sub_sent /\ run_pc # "subscribe"

\* C32: when the send of the subscription frame fails, subscribe() returns
\* normally and run() gathers its three tasks: nothing is raised to the
\* caller, and on the unsubscribed connection the receive loop can take a
\* frame, the scanner can run its cycle and the snapshot writer its pass.
C32_FailedSubscribeGoesOn ==
    /\ [](Unsubscribed => run_pc = "gather")
    /\ []((Unsubscribed /\ frame_left = 0) =>
             /\ (listening /\ budget.events > 0) => ENABLED RunRecvFrame(<<NotAnObject>>)
             /\ (scan_pc = "sleep" /\ budget.cycles > 0) => ENABLED ScanCycle("ok", "ok", "ok", "ok")
             /\ budget.saves > 0 => ENABLED SaveTokenData("ok"))

\* on the unsubscribed connection a frame has been received and handled, a
\* scanner cycle has run and a snapshot has been written
C32_Witness ==
    /\ Unsubscribed
    /\ received # <<>> /\ applied # <<>>
    /\ iteration = 1
    /\ save_log # <<>>

\* ------------------------------------------------------------------------
\* Claims about the Decision Records
\* ------------------------------------------------------------------------

\* what the spec asks of a Decision Record
WellFormed(rec) ==
    /\ Len(rec.orders) >= 1
    /\ \A i, j \in 1..Len(rec.orders) :
          rec.orders[i].token_id = rec.orders[j].token_id => i = j
    /\ \A i, j \in 1..Len(rec.orders) :
          rec.orders[i].optimal_size = rec.orders[j].optimal_size
    /\ \A i \in 1..Len(rec.orders) : rec.orders[i].optimal_size <= rec.orders[i].size
    /\ rec.total_price = SumPrices(rec.orders)
    /\ rec.total_price < Threshold

\* C33: every Decision Record the scanner builds, and every record in the
\* decision log, has at least one intent, no instrument twice, one
\* allocated size for all intents that is at most each intent's original
\* size, and a total that is the sum of its intents' prices and is below
\* the threshold.
C33_RecordsWellFormed ==
    /\ wrapped_order # NoOrder => WellFormed(wrapped_order)
    /\ \A i \in 1..Len(order_log.recs) : WellFormed(order_log.recs[i])

\* the log holds a record of two intents whose original sizes differ
C33_Witness ==
    \E i \in 1..Len(order_log.recs) :
        LET rec == order_log.recs[i]
        IN  /\ Len(rec.orders) = 2
            /\ rec.orders[1].size # rec.orders[2].size
            /\ rec.orders[1].price # rec.orders[2].price

\* C34: while the orders of a decision are in flight, and when they have
\* returned, each submitted order carries the instrument id, the price and
\* the allocated size of the intent at its place in the Decision Record,
\* and the record in the decision log is that record, whatever events the
\* receive loop applies to the store meanwhile.
C34_DispatchedAreTheIntents ==
    scan_pc = "send" =>
        /\ Len(send_tasks) = Len(wrapped_order.orders)
        /\ \A i \in 1..Len(send_tasks) :
              /\ send_tasks[i].token_id = wrapped_order.orders[i].token_id
              /\ send_tasks[i].order_price = wrapped_order.orders[i].price
              /\ send_tasks[i].order_size = wrapped_order.orders[i].optimal_size
        /\ \A i \in 1..Len(order_log.recs) :
              order_log.recs[i].order_id = wrapped_order.order_id =>
                  order_log.recs[i] = wrapped_order

\* an order has been submitted after a book event moved its instrument's
\* best ask away from the recorded price, and another is still in flight
C34_Witness ==
    /\ scan_pc = "send"
    /\ RecordLogged
    /\ \E i, j \in 1..Len(send_tasks) :
          /\ send_tasks[i].status = "success"
          /\ token_data[send_tasks[i].token_id].best_sells # send_tasks[i].order_price
          /\ Pending(j)
    /\ frame_left = 0 /\ budget.events = 0

\* C35: every intent of every Decision Record the scanner builds or has in
\* the decision log, and every order it dispatches, has an allocated size
\* above 0.
C35_AllocatedPositive ==
    /\ \A i \in 1..Len(wrapped_order.orders) : wrapped_order.orders[i].optimal_size > 0
    /\ \A i \in 1..Len(send_tasks) : send_tasks[i].order_size > 0
    /\ \A i \in 1..Len(order_log.recs) :
          \A j \in 1..Len(order_log.recs[i].orders) :
              order_log.recs[i].orders[j].optimal_size > 0

\* the latest Decision Record, when the decision log holds it
LatestLogged ==
    /\ order_log.ok
    /\ order_log.recs # <<>>
    /\ order_log.recs[Len(order_log.recs)].order_id = next_id

LatestRecord == order_log.recs[Len(order_log.recs)]

\* the store is as the record's cycle read it: the same instruments
\* qualify, at the recorded prices and sizes
StoreAsDecided(rec) ==
    /\ Qualifying = IntentTokens(rec.orders)
    /\ \A i \in 1..Len(rec.orders) :
          /\ token_data[rec.orders[i].token_id].best_sells = rec.orders[i].price
          /\ token_data[rec.orders[i].token_id].best_sells_size = rec.orders[i].size

\* C36: a scanner cycle that finds the store as the cycle of the latest
\* Decision Record read it decides again: it takes a new decision id,
\* builds a record with the same intents and the same total, and dispatches
\* one order per intent.
C36_NoMemoryOfDecisions ==
    [][(ScanStep /\ LatestLogged /\ StoreAsDecided(LatestRecord)) =>
          /\ next_id' = next_id + 1
          /\ wrapped_order'.order_id = next_id'
          /\ wrapped_order'.order_id # LatestRecord.order_id
          /\ wrapped_order'.orders = LatestRecord.orders
          /\ wrapped_order'.total_price = LatestRecord.total_price
          /\ scan_pc' = "send"
          /\ Len(send_tasks') = Len(LatestRecord.orders)
          /\ \A i \in 1..Len(send_tasks') : send_tasks'[i].status = "pending"
      ]_vars

\* the condition held for five cycles: five records with five ids and the
\* same intents, the fifth being dispatched
C36_Witness ==
    /\ iteration = 5
    /\ next_id = 5
    /\ scan_pc = "send"
    /\ order_log.ok
    /\ Len(order_log.recs) = 5
    /\ \A i \in 1..5 :
          /\ order_log.recs[i].order_id = i
          /\ order_log.recs[i].orders = order_log.recs[1].orders

\* C37: once the receive loop has ended, run() stays at its gather and
\* never returns or raises; the scanner can run its next cycle and the
\* snapshot writer its next pass; and the store, its keys included, stays
\* as the loop left it.
C37_RunOutlivesReceiveLoop ==
    /\ [](~listening => run_pc = "gather")
    /\ []((~listening /\ frame_left = 0) =>
             /\ (scan_pc = "sleep" /\ budget.cycles > 0) =>
                    ENABLED (run_pc = "gather" /\ ScanCycle("ok", "ok", "ok", "ok"))
             /\ budget.saves > 0 => ENABLED (run_pc = "gather" /\ SaveTokenData("ok")))
    /\ [][~listening =>
             /\ ~listening'
             /\ token_data' = token_data
             /\ token_keys' = token_keys]_vars

\* the connection closed after one frame; since then the scanner has run
\* its cycle and the writer has written the store the loop left
C37_Witness ==
    /\ ~listening
    /\ Len(received) = 2
    /\ received[1].kind = "frame" /\ received[2].kind = "closed"
    /\ token_data # <<>>
    /\ iteration = 1
    /\ snapshot.ok /\ snapshot.data = token_data
    /\ run_pc = "gather"

\* C38: a cycle that triggers dispatches its orders whatever becomes of the
\* read and the write of the decision log: it goes to the gather with one
\* pending send_order per qualifying instrument, at the instrument's best
\* ask and the uniform size, the same calls whether the record reached the
\* log or not.
C38_DispatchDespiteLogFailure ==
    [][(ScanStep /\ Qualifying # {} /\ AggregateS < Threshold) =>
          /\ scan_pc' = "send"
          /\ IntentTokens(send_tasks') = Qualifying
          /\ Len(send_tasks') = Cardinality(Qualifying)
          /\ \A i \in 1..Len(send_tasks') :
                /\ send_tasks'[i].status = "pending"
                /\ send_tasks'[i].order_price = token_data[send_tasks'[i].token_id].best_sells
                /\ send_tasks'[i].order_size = UniformU
      ]_vars

\* the write of the decision log failed and left the file unreadable; the
\* two orders of the decision were dispatched and one has returned
C38_Witness ==
    /\ scan_pc = "send"
    /\ ~order_log.ok
    /\ ~RecordLogged
    /\ Len(send_tasks) = 2
    /\ send_tasks[1].status = "success"
    /\ Pending(2)

\* ------------------------------------------------------------------------
\* The price_change fallback of the handler-based client (SpecBook)
\* ------------------------------------------------------------------------

====
